---- MODULE Spec2Model ----
(***************************************************************************)
(* Triage Party: the background updater (pkg/updater, carried in           *)
(* src/pkg/persist/persist.go lines 96-478), the hubbub search engine      *)
(* (src/unnamed/part_001, part_000), the in-memory cache (gocache.go)       *)
(* and the construction of a Conversation (src/pkg/hubbub/item.go).        *)
(*                                                                         *)
(* Time is counted in seconds.  The zero time.Time{} is the instant        *)
(* ZeroTime, far before every instant the clock can show, so that          *)
(* time.Since(time.Time{}) is larger than every duration of the model, as  *)
(* the saturated Duration of Go is.                                        *)
(***************************************************************************)
EXTENDS Integers, Sequences, FiniteSets, TLC

\* ------------------------------------------------------------------ bounds
MaxTime == 1          \* the clock of Spec runs from 0 to MaxTime
MaxTicks == 1         \* ticks of Loop (calls of RunOnce) in a behaviour of Spec
MaxCalls == 2         \* calls of Lookup and ForceRefresh in a behaviour of Spec
SeqCalls == 2         \* calls of the one handler thread in a behaviour of SpecCall
BootTicks == 3        \* ticks of Loop in a behaviour of SpecBoot
MaxNow == 90          \* latest instant drawn by SpecDecide
Huge == 1000          \* distance of the zero time from the model's epoch
MaxComments == 4      \* comments of an item of SpecConv
MaxClosedComments == 3 \* comments of an item of SpecClosed
MaxLines == 3         \* lines of the comment of SpecQuestion
MaxWords == 2         \* words of a line of the comment of SpecQuestion
MaxBodyWords == 3     \* references in the body of the item of SpecRefs
MaxRefComments == 2   \* comments of the item of SpecRefs
MaxFilters == 2       \* filters of a search
MaxItems == 2         \* items the loop of a search goes through in SpecItems
StaleAge == 7         \* age of the oldest cached result SpecStale starts with
PersistLead == 3      \* seconds before the epoch at which SpecPersist starts

\* --------------------------------------------------------------- constants
minFlushAge == 5
ForceDelta == 1
loopMinRefresh == 1
loopMaxRefresh == 2
WarmAge == 3
PerSecond == 1000
MaxLoadAge == 864000
MaxClosedUpdateAge == 14

ZeroTime == 0 - Huge
IsZero(t) == t = ZeroTime

\* ------------------------------------------------------------ configuration
Collections == {"c1", "c2"}
\* party.ListCollections(): the collections in configuration order
sts == <<"c1", "c2">>
\* Collection.UsedForStats
UsedForStats(c) == c = "c2"

LoopThread == "loop"
Readers == {"r1", "r2"}
Handler == "r1"
Workers == {LoopThread} \cup Readers
Persisters == {"p1", "p2"}

NoThread == "none"
NoReason == "nil"

\* a *triage.CollectionResult: nil, or a result with its Created time
NilResult == [isNil |-> TRUE, Created |-> ZeroTime]
Result(t) == [isNil |-> FALSE, Created |-> t]

VARIABLES
  \* Updater fields
  now, cache, lastRequest, secondLastRequest, lastPersist, lastRun,
  startTime, persistStart, updateCycles, minRefresh, maxRefresh, mutex,
  \* the process died of "fatal error: concurrent map read and map write"
  fatal,
  \* position and locals of the loop thread, the handler threads and the
  \* Persist goroutines
  pc, loc, updated, failed, idx,
  \* how many ticks and how many handler calls have begun, and how many
  \* the behaviour may hold
  ticks, calls, quota,
  \* the last decision of shouldUpdate applied by SpecDecide
  decision,
  \* one search of the hubbub engine (SpecSearch)
  search,
  \* the in-memory cache of package persist and the Things its callers
  \* hold (SpecCache)
  mem,
  \* one call of Engine.conversation (SpecConv, SpecQuestion, SpecRefs)
  conv

updaterVars == <<now, cache, lastRequest, secondLastRequest, lastPersist,
                 lastRun, startTime, persistStart, updateCycles, minRefresh,
                 maxRefresh, mutex, fatal, pc, loc, updated, failed, idx,
                 ticks, calls, quota>>
vars == <<updaterVars, decision, search, mem, conv>>

\* ------------------------------------------------------------- time helpers
Since(t) == now - t
Sub(a, b) == a - b
\* A time.Duration counts units far smaller than a second, so that half of a
\* sum of whole seconds is exact: Dur(d) is the Duration of d seconds
Dur(d) == d * PerSecond
\* Go integer division truncates toward zero
Quot(a, b) == IF a >= 0 THEN a \div b ELSE 0 - ((0 - a) \div b)

\* lastRequested is the last time someone requested to view a collection
lastRequested(c) == lastRequest[c]

\* secondLastRequested falls back to startTime when nothing is stored
secondLastRequested(c) ==
  IF IsZero(secondLastRequest[c]) THEN startTime ELSE secondLastRequest[c]

needAgeWithoutMinRefresh(c) ==
  Quot(Dur(Since(lastRequested(c)))
         + Dur(Sub(lastRequested(c), secondLastRequested(c))), 2)

\* needAge := ((requestAge + secondRequestDiff) / 2) + u.minRefresh
needAge(c) ==
  Quot(Dur(Since(lastRequested(c)))
         + Dur(Sub(lastRequested(c), secondLastRequested(c))), 2)
    + Dur(minRefresh)

shouldUpdateNoStatsGuard(c, usedForStats, force) ==
  IF updateCycles < 2 THEN "cycle count"
  ELSE IF cache[c].isNil THEN "not cached"
  ELSE IF Since(cache[c].Created) > (IF usedForStats THEN maxRefresh * 3 ELSE maxRefresh)
       THEN "max refresh age"
  ELSE IF force THEN "force-mode"
  ELSE IF IsZero(lastRequested(c)) THEN NoReason
  ELSE IF Since(cache[c].Created) < minRefresh THEN NoReason
  ELSE IF Dur(Since(cache[c].Created)) > needAge(c) THEN "popularity"
  ELSE NoReason

shouldUpdateIgnoresForce(c, usedForStats, force) ==
  IF updateCycles < 2 THEN "cycle count"
  ELSE IF cache[c].isNil THEN "not cached"
  ELSE IF Since(cache[c].Created) > (IF usedForStats THEN maxRefresh * 3 ELSE maxRefresh)
       THEN "max refresh age"
  ELSE IF IsZero(lastRequested(c)) THEN NoReason
  ELSE IF Since(cache[c].Created) < minRefresh THEN NoReason
  ELSE IF Dur(Since(cache[c].Created)) > needAge(c) /\ ~usedForStats THEN "popularity"
  ELSE NoReason

shouldUpdateRequestedFirst(c, usedForStats, force) ==
  IF updateCycles < 2 THEN "cycle count"
  ELSE IF cache[c].isNil THEN "not cached"
  ELSE IF force THEN "force-mode"
  ELSE IF IsZero(lastRequested(c)) THEN NoReason
  ELSE IF Since(cache[c].Created) > (IF usedForStats THEN maxRefresh * 3 ELSE maxRefresh)
       THEN "max refresh age"
  ELSE IF Since(cache[c].Created) < minRefresh THEN NoReason
  ELSE IF Dur(Since(cache[c].Created)) > needAge(c) /\ ~usedForStats THEN "popularity"
  ELSE NoReason

\* shouldUpdate returns an error (a reason) if a collection needs an update
shouldUpdate(c, usedForStats, force) ==
  IF updateCycles < 2 THEN "cycle count"
  ELSE IF cache[c].isNil THEN "not cached"
  ELSE IF Since(cache[c].Created) > (IF usedForStats THEN maxRefresh * 3 ELSE maxRefresh)
       THEN "max refresh age"
  ELSE IF force THEN "force-mode"
  ELSE IF IsZero(lastRequested(c)) THEN NoReason
  ELSE IF Since(cache[c].Created) < minRefresh THEN NoReason
  ELSE IF Dur(Since(cache[c].Created)) > needAge(c) /\ ~usedForStats THEN "popularity"
  ELSE NoReason

\* ------------------------------------------------------------------ locals
\* locals of a worker: the arguments and locals of Lookup, ForceRefresh,
\* RefreshCollection, update and recordAccess of the current call
NoLoc == [op |-> "none", id |-> "c1", blocking |-> FALSE, fallback |-> FALSE,
          force |-> FALSE, newerThan |-> ZeroTime, start |-> ZeroTime,
          r |-> NilResult, hit |-> FALSE, ret |-> NilResult,
          last |-> ZeroTime, execs |-> 0, outer |-> FALSE]

Running == ~fatal

InitUpdater ==
  /\ now = 0
  /\ cache = [c \in Collections |-> NilResult]
  /\ lastRequest = [c \in Collections |-> ZeroTime]
  /\ secondLastRequest = [c \in Collections |-> ZeroTime]
  /\ lastPersist = ZeroTime
  /\ lastRun = ZeroTime
  /\ startTime = ZeroTime
  /\ persistStart = ZeroTime
  /\ updateCycles = 0
  /\ mutex = NoThread
  /\ fatal = FALSE
  /\ pc = [t \in Workers \cup Persisters |-> "idle"]
  /\ loc = [t \in Workers |-> NoLoc]
  /\ updated = FALSE
  /\ failed = {}
  /\ idx = 0
  /\ ticks = 0
  /\ calls = 0

\* the locals of one call of SearchIssues or SearchPullRequests: the two
\* listings and the age, how far each goroutine is ("run", "fetched" with
\* its listing and timestamp in hand, "done"), whether its fetch failed,
\* and what the call returns (conversations, time and error)
NoError == "nil"
\* an item of a listing as the loop of a search reads it: GetState,
\* GetMilestone() != nil, GetCreatedAt, GetUpdatedAt, GetComments
NoIssue == [State |-> "open", Milestone |-> FALSE, Created |-> 0 - 5,
            Updated |-> 0 - 5, Comments |-> 0]
\* a Filter: the fields the search reads ("" is a field that is not set)
NoFilter == [State |-> "", ClosedCommenters |-> "", ClosedComments |-> "",
             Tag |-> "", Responded |-> "", Commenters |-> "",
             Prioritized |-> ""]
NoSearch == [phase |-> "off", kind |-> "issues", needsClosed |-> FALSE,
             fs |-> <<>>, requests |-> {},
             variant |-> "args",
             sp |-> [State |-> "", UpdateAge |-> 0, NewerThan |-> ZeroTime,
                     UpdateAt |-> ZeroTime, Fetch |-> FALSE],
             newerThan |-> ZeroTime, mostRecentUpdate |-> 0 - 3,
             reqs |-> <<>>,
             open |-> <<>>, closed |-> <<>>, age |-> ZeroTime,
             openStep |-> "run", closedStep |-> "run",
             oi |-> <<>>, ci |-> <<>>, olower |-> FALSE, clower |-> FALSE,
             ots |-> ZeroTime, cts |-> ZeroTime,
             openFailed |-> FALSE, closedFailed |-> FALSE,
             filtered |-> <<>>, ts |-> ZeroTime, err |-> NoError,
             i |-> NoIssue, hidden |-> FALSE, step |-> "idle", n |-> 0,
             log |-> <<>>]

\* the in-memory cache: the Things the callers hold (a *Thing is named, its
\* Created field is things[v]), the entry and the expiration stored under
\* each key, and the last operation with the store as it was before it
Keys == {"k1", "k2"}
Things == {"v1", "v2"}
NoThing == "nil"
NoOp == [name |-> "none", key |-> "k1", t |-> ZeroTime, th |-> NoThing,
         at |-> ZeroTime, created |-> ZeroTime, ret |-> NoThing,
         before |-> [k \in Keys |-> NoThing]]
NoMem == [things |-> [v \in Things |-> ZeroTime],
          store |-> [k \in Keys |-> NoThing],
          expires |-> [k \in Keys |-> ZeroTime],
          op |-> NoOp]

\* Engine.conversation: the logins are the author of the item, a login of
\* the members list, an outsider and a bot; NoLogin is the login of a nil
\* user.  h.members and h.memberRoles are the configured membership.
Author == "author"
Logins == {Author, "m1", "x", "bot"}
NoLogin == ""
members == {"m1"}
memberRoles == {"member"}

\* a text is a sequence of lines, a line a sequence of words; a line may
\* start or end with the word " ", a run of blanks.  The words:
\*   "see", "why?"   plain words, the second with a question mark
\*   ">"             the mark of a quoted line
\*   Fence           a code fence, three backquotes
\*   "#7", "#42", "#42."   relative references, the last with punctuation
\*   the URLs        absolute references
Blank == " "
Newline == "\n"
Fence == "<fence>"
OwnUrl == "https://github.com/o/p/issues/7"
OtherUrl == "https://github.com/o/p/issues/42"
ForeignUrl == "https://github.com/q/p/pull/42"

\* the item of the conversations: https://github.com/o/p/issues/7, split at
\* "/" as strings.Split does
HTMLURL == <<"https:", "", "github.com", "o", "p", "issues", "7">>
NoItem == [number |-> 7, url |-> HTMLURL, user |-> Author, assoc |-> "NONE",
           state |-> "open", created |-> 0, closedAt |-> ZeroTime,
           updated |-> 0, assignee |-> NoLogin, body |-> <<>>]

\* the Conversation under construction
NoCo == [ID |-> 0, Organization |-> "", Project |-> "", State |-> "",
         Created |-> ZeroTime, ClosedAt |-> ZeroTime,
         LatestAuthorResponse |-> ZeroTime,
         LatestMemberResponse |-> ZeroTime,
         LatestAssigneeResponse |-> ZeroTime,
         AccumulatedHoldTime |-> 0, CurrentHoldTime |-> 0,
         ClosedCommentsTotal |-> 0, ClosedCommentersTotal |-> 0,
         CommentersTotal |-> 0, Commenters |-> <<>>,
         Tags |-> <<>>, IssueRefs |-> <<>>, Updated |-> ZeroTime,
         LastCommentAuthor |-> NoLogin, LastCommentBody |-> <<>>]

\* the referenced items whose mention time the engine keeps
RefTargets == [org : {"o", "q"}, project : {"p"}, id : {7, 42}]

\* no call of Engine.conversation: its arguments i and cs, its position
\* (phase, k is the index of the next comment), its locals, and the mention
\* times of the engine
NoConv == [phase |-> "off", item |-> NoItem, cs |-> <<>>, k |-> 0,
           authorIsMember |-> FALSE, co |-> NoCo, lastQuestion |-> ZeroTime,
           seenCommenters |-> {}, seenClosedCommenters |-> {},
           seenMemberComment |-> FALSE,
           mtime |-> [r \in RefTargets |-> ZeroTime]]

InitOther ==
  /\ decision = [taken |-> FALSE, id |-> "c1", force |-> FALSE,
                 reason |-> NoReason]
  /\ search = NoSearch
  /\ mem = NoMem
  /\ conv = NoConv

\* The updater as it starts: nothing cached, nothing requested, no cycle done
InitFresh ==
  /\ InitUpdater
  /\ minRefresh = loopMinRefresh
  /\ maxRefresh = loopMaxRefresh
  /\ InitOther

\* The updater some seconds into its run, all threads at rest: RunOnce has
\* run (lastRun, startTime set), one or two cycles were counted, the Persist
\* launched after the first of them has completed two seconds ago, c2 was
\* refreshed by the first cycle, and c1 is in any of the states the past
\* can have left it in: never refreshed with success, refreshed by the
\* first cycle, or refreshed just now; never requested, or requested once
InitWarm ==
  /\ now = 0
  /\ cache \in {[c \in Collections |-> IF c = "c1" THEN r1 ELSE Result(0 - WarmAge)] :
                   r1 \in {NilResult, Result(0 - WarmAge), Result(0)}}
  /\ lastRequest \in {[c \in Collections |-> IF c = "c1" THEN q ELSE ZeroTime] :
                         q \in {ZeroTime, 0 - 1}}
  /\ secondLastRequest = [c \in Collections |-> ZeroTime]
  /\ lastPersist = 0 - 2
  /\ lastRun = 0 - 1
  /\ startTime = 0 - WarmAge
  /\ persistStart = ZeroTime
  /\ updateCycles \in {1, 2}
  /\ mutex = NoThread
  /\ fatal = FALSE
  /\ pc = [t \in Workers \cup Persisters |-> "idle"]
  /\ loc = [t \in Workers |-> NoLoc]
  /\ updated = FALSE
  /\ failed = {}
  /\ idx = 0
  /\ ticks = 0
  /\ calls = 0
  /\ minRefresh = loopMinRefresh
  /\ maxRefresh = loopMaxRefresh
  /\ InitOther

\* Spec: a tick of the loop and two handler calls for the collection c1,
\* two cycles after start
Init ==
  /\ InitWarm
  /\ updateCycles = 2
  /\ cache["c1"] # Result(0 - WarmAge)
  /\ quota = [ticks |-> MaxTicks, calls |-> MaxCalls, ids |-> {"c1"}]

\* SpecCall: one handler thread calls Lookup and ForceRefresh for any
\* collection, one call after the other, between two ticks of the loop
InitCall ==
  /\ InitWarm
  /\ quota = [ticks |-> 0, calls |-> SeqCalls, ids |-> Collections]

\* SpecStart: the updater from its construction, with ticks of the loop and
\* calls of one handler thread for the collection c1 in any order: a call
\* may come before the first RunOnce
InitStart ==
  /\ InitFresh
  /\ quota = [ticks |-> MaxTicks, calls |-> MaxCalls, ids |-> {"c1"}]

\* SpecBoot: the loop and its Persist goroutines from the start, no requests
InitBoot ==
  /\ InitFresh
  /\ quota = [ticks |-> BootTicks, calls |-> 0, ids |-> {}]

uvOther == <<ticks, calls, quota, decision, search, mem, conv>>
uvRest == <<quota, decision, search, mem, conv>>

\* the wall clock advances
Advance ==
  /\ Running
  /\ now < MaxTime
  /\ now' = now + 1
  /\ UNCHANGED <<cache, lastRequest, secondLastRequest, lastPersist, lastRun,
                 startTime, persistStart, updateCycles, minRefresh, maxRefresh,
                 mutex, fatal, pc, loc, updated, failed, idx, uvOther>>

ReturnFromRefreshCountsFailure(t, runUpdated, err, l) ==
  IF t = LoopThread
  THEN /\ updated' = (updated \/ runUpdated)
       /\ failed' = IF err THEN failed \cup {l.id} ELSE failed
       /\ IF idx < Len(sts)
          THEN /\ idx' = idx + 1
               /\ pc' = [pc EXCEPT ![t] = "rc_lock"]
               /\ loc' = [loc EXCEPT ![t] = [l EXCEPT !.id = sts[idx + 1]]]
          ELSE /\ idx' = idx
               /\ pc' = [pc EXCEPT ![t] = "end"]
               /\ loc' = [loc EXCEPT ![t] = l]
  ELSE /\ UNCHANGED <<updated, failed, idx>>
       /\ pc' = [pc EXCEPT ![t] = IF l.op = "Lookup" \/ l.fallback
                                  THEN "lk_read2" ELSE "fr_read"]
       /\ loc' = [loc EXCEPT ![t] = l]

\* ------------------------------------------------- RefreshCollection/update
\* RefreshCollection returns (runUpdated, err) to its caller: the loop of
\* RunOnce goes on with the next collection, Lookup and ForceRefresh go on
\* to read the cache
ReturnFromRefresh(t, runUpdated, err, l) ==
  IF t = LoopThread
  THEN /\ updated' = (updated \/ (runUpdated /\ ~err))
       /\ failed' = IF err THEN failed \cup {l.id} ELSE failed
       /\ IF idx < Len(sts)
          THEN /\ idx' = idx + 1
               /\ pc' = [pc EXCEPT ![t] = "rc_lock"]
               /\ loc' = [loc EXCEPT ![t] = [l EXCEPT !.id = sts[idx + 1]]]
          ELSE /\ idx' = idx
               /\ pc' = [pc EXCEPT ![t] = "end"]
               /\ loc' = [loc EXCEPT ![t] = l]
  ELSE /\ UNCHANGED <<updated, failed, idx>>
       /\ pc' = [pc EXCEPT ![t] = IF l.op = "Lookup" \/ l.fallback
                                  THEN "lk_read2" ELSE "fr_read"]
       /\ loc' = [loc EXCEPT ![t] = l]

RefreshCollectionNoLock(t) ==
  /\ Running
  /\ pc[t] = "rc_lock"
  /\ IF shouldUpdate(loc[t].id, UsedForStats(loc[t].id), loc[t].force) = NoReason
     THEN /\ mutex' = mutex
          /\ ReturnFromRefresh(t, FALSE, FALSE, loc[t])
     ELSE /\ mutex' = t
          /\ pc' = [pc EXCEPT ![t] = "exec"]
          /\ loc' = [loc EXCEPT ![t].execs = @ + 1]
          /\ UNCHANGED <<updated, failed, idx>>
  /\ UNCHANGED <<now, cache, lastRequest, secondLastRequest, lastPersist,
                 lastRun, startTime, persistStart, updateCycles, minRefresh,
                 maxRefresh, fatal, uvOther>>

\* RefreshCollection: lock the mutex, ask shouldUpdate; without a reason
\* unlock and return (false, nil), else enter update and ExecuteCollection
RefreshCollection(t) ==
  /\ Running
  /\ pc[t] = "rc_lock"
  /\ mutex = NoThread
  /\ IF shouldUpdate(loc[t].id, UsedForStats(loc[t].id), loc[t].force) = NoReason
     THEN /\ mutex' = mutex
          /\ ReturnFromRefresh(t, FALSE, FALSE, loc[t])
     ELSE /\ mutex' = t
          /\ pc' = [pc EXCEPT ![t] = "exec"]
          /\ loc' = [loc EXCEPT ![t].execs = @ + 1]
          /\ UNCHANGED <<updated, failed, idx>>
  /\ UNCHANGED <<now, cache, lastRequest, secondLastRequest, lastPersist,
                 lastRun, startTime, persistStart, updateCycles, minRefresh,
                 maxRefresh, fatal, uvOther>>

\* update: ExecuteCollection returned an error (cancellation included)
updateFailed(t) ==
  /\ Running
  /\ pc[t] = "exec"
  /\ mutex' = NoThread
  /\ ReturnFromRefresh(t, TRUE, TRUE, loc[t])
  /\ UNCHANGED <<now, cache, lastRequest, secondLastRequest, lastPersist,
                 lastRun, startTime, persistStart, updateCycles, minRefresh,
                 maxRefresh, fatal, uvOther>>

\* update: ExecuteCollection returned a result created now; the assignment
\* u.cache[s.ID] = r begins
updateExecuted(t) ==
  /\ Running
  /\ pc[t] = "exec"
  /\ pc' = [pc EXCEPT ![t] = "write"]
  /\ loc' = [loc EXCEPT ![t].r = Result(now)]
  /\ UNCHANGED <<now, cache, lastRequest, secondLastRequest, lastPersist,
                 lastRun, startTime, persistStart, updateCycles, minRefresh,
                 maxRefresh, mutex, fatal, updated, failed, idx, uvOther>>

\* update: the assignment u.cache[s.ID] = r is complete; RefreshCollection
\* unlocks and returns (true, nil)
updateStore(t) ==
  /\ Running
  /\ pc[t] = "write"
  /\ cache' = [cache EXCEPT ![loc[t].id] = loc[t].r]
  /\ mutex' = NoThread
  /\ ReturnFromRefresh(t, TRUE, FALSE, loc[t])
  /\ UNCHANGED <<now, lastRequest, secondLastRequest, lastPersist,
                 lastRun, startTime, persistStart, updateCycles, minRefresh,
                 maxRefresh, fatal, uvOther>>

\* ------------------------------------------------------------ RunOnce, Loop
\* a tick of Loop: RunOnce(ctx, false) up to its first RefreshCollection
RunOnce ==
  /\ Running
  /\ pc[LoopThread] = "idle"
  /\ ticks < quota.ticks
  /\ ticks' = ticks + 1
  /\ \E listOk \in BOOLEAN :
       IF listOk
       THEN /\ startTime' = IF IsZero(lastRun) THEN now ELSE startTime
            /\ loc' = [loc EXCEPT ![LoopThread] =
                 [NoLoc EXCEPT !.op = "RunOnce", !.id = sts[1], !.start = now,
                               !.force = IsZero(lastRun),
                               !.newerThan = IF updateCycles = 0 THEN ZeroTime
                                             ELSE now - 2 * minFlushAge]]
            /\ idx' = 1
            /\ pc' = [pc EXCEPT ![LoopThread] = "rc_lock"]
       ELSE /\ startTime' = startTime
            /\ loc' = [loc EXCEPT ![LoopThread] =
                 [NoLoc EXCEPT !.op = "RunOnce", !.start = now]]
            /\ idx' = 0
            /\ pc' = [pc EXCEPT ![LoopThread] = "end"]
  /\ updated' = FALSE
  /\ failed' = {}
  /\ UNCHANGED <<now, cache, lastRequest, secondLastRequest, lastPersist,
                 lastRun, persistStart, updateCycles, minRefresh,
                 maxRefresh, mutex, fatal, calls, uvRest>>

\* shouldPersist, for one draw of the fuzz rand.Intn(maxRefresh.Seconds())
shouldPersist(upd, fuzz) ==
  /\ IsZero(persistStart)
  /\ upd
  /\ Since(lastPersist) > maxRefresh + fuzz

LoopEndCountsEveryTick ==
  /\ Running
  /\ pc[LoopThread] = "end"
  /\ updateCycles' = updateCycles + 1
  /\ lastRun' = now
  /\ \E fuzz \in 0 .. (maxRefresh - 1) :
       IF shouldPersist(updated, fuzz)
       THEN \E p \in Persisters :
              /\ pc[p] \in {"idle", "p_failed"}
              /\ pc' = [pc EXCEPT ![LoopThread] = "idle", ![p] = "p_test"]
       ELSE pc' = [pc EXCEPT ![LoopThread] = "idle"]
  /\ updated' = FALSE
  /\ failed' = {}
  /\ idx' = 0
  /\ loc' = [loc EXCEPT ![LoopThread] = NoLoc]
  /\ UNCHANGED <<now, cache, lastRequest, secondLastRequest, lastPersist,
                 startTime, persistStart, minRefresh, maxRefresh, mutex,
                 fatal, uvOther>>

\* RunOnce returns (its deferred function counts the cycle); Loop records
\* lastRun and, if shouldPersist, starts "go u.Persist()"
LoopEnd ==
  /\ Running
  /\ pc[LoopThread] = "end"
  /\ updateCycles' = IF updated THEN updateCycles + 1 ELSE updateCycles
  /\ lastRun' = now
  /\ \E fuzz \in 0 .. (maxRefresh - 1) :
       IF shouldPersist(updated, fuzz)
       THEN \E p \in Persisters :
              /\ pc[p] \in {"idle", "p_failed"}
              /\ pc' = [pc EXCEPT ![LoopThread] = "idle", ![p] = "p_test"]
       ELSE pc' = [pc EXCEPT ![LoopThread] = "idle"]
  /\ updated' = FALSE
  /\ failed' = {}
  /\ idx' = 0
  /\ loc' = [loc EXCEPT ![LoopThread] = NoLoc]
  /\ UNCHANGED <<now, cache, lastRequest, secondLastRequest, lastPersist,
                 startTime, persistStart, minRefresh, maxRefresh, mutex,
                 fatal, uvOther>>

\* ------------------------------------------------------------------ Persist
\* Persist: the test of the advisory lock
PersistTest(p) ==
  /\ Running
  /\ pc[p] = "p_test"
  /\ pc' = [pc EXCEPT ![p] = IF IsZero(persistStart) THEN "p_set" ELSE "idle"]
  /\ UNCHANGED <<now, cache, lastRequest, secondLastRequest, lastPersist,
                 lastRun, startTime, persistStart, updateCycles, minRefresh,
                 maxRefresh, mutex, fatal, loc, updated, failed, idx, uvOther>>

\* Persist: u.persistStart = time.Now(), then persistFunc runs
PersistSet(p) ==
  /\ Running
  /\ pc[p] = "p_set"
  /\ persistStart' = now
  /\ pc' = [pc EXCEPT ![p] = "p_run"]
  /\ UNCHANGED <<now, cache, lastRequest, secondLastRequest, lastPersist,
                 lastRun, startTime, updateCycles, minRefresh,
                 maxRefresh, mutex, fatal, loc, updated, failed, idx, uvOther>>

PersistDoneKeepsFlagOnError(p, err) ==
  /\ Running
  /\ pc[p] = "p_run"
  /\ persistStart' = IF err THEN persistStart ELSE ZeroTime
  /\ lastPersist' = IF err THEN lastPersist ELSE now
  /\ pc' = [pc EXCEPT ![p] = IF err THEN "p_failed" ELSE "idle"]
  /\ UNCHANGED <<now, cache, lastRequest, secondLastRequest,
                 lastRun, startTime, updateCycles, minRefresh,
                 maxRefresh, mutex, fatal, loc, updated, failed, idx, uvOther>>

\* Persist: persistFunc returned nil or an error, which Persist returns;
\* either way the deferred function clears the advisory lock and stamps
\* lastPersist.  A goroutine at "p_failed" has ended with the error
PersistDone(p, err) ==
  /\ Running
  /\ pc[p] = "p_run"
  /\ persistStart' = ZeroTime
  /\ lastPersist' = now
  /\ pc' = [pc EXCEPT ![p] = IF err THEN "p_failed" ELSE "idle"]
  /\ UNCHANGED <<now, cache, lastRequest, secondLastRequest,
                 lastRun, startTime, updateCycles, minRefresh,
                 maxRefresh, mutex, fatal, loc, updated, failed, idx, uvOther>>

\* --------------------------------------------------- Lookup and ForceRefresh
\* a read of the map u.cache by t outside the mutex overlaps the assignment
\* of a worker that is inside u.cache[s.ID] = r
Writers(t) == {w \in Workers \ {t} : pc[w] = "write"}

\* what an unsynchronised read of u.cache[c] can return: the stored entry
\* or the entry being stored
ReadOutcomes(t, c) ==
  {cache[c]} \cup {loc[w].r : w \in {x \in Writers(t) : loc[x].id = c}}

\* the runtime detects the concurrent map read and map write and throws
MapReadFatal(t) ==
  /\ Running
  /\ pc[t] \in {"lk_read1", "lk_read2", "fr_read"}
  /\ Writers(t) # {}
  /\ fatal' = TRUE
  /\ UNCHANGED <<now, cache, lastRequest, secondLastRequest, lastPersist,
                 lastRun, startTime, persistStart, updateCycles, minRefresh,
                 maxRefresh, mutex, pc, loc, updated, failed, idx, uvOther>>

\* a handler thread calls Lookup(ctx, id, blocking)
Lookup(t, c, blocking) ==
  /\ Running
  /\ pc[t] = "idle"
  /\ c \in quota.ids
  /\ calls < quota.calls
  /\ calls' = calls + 1
  /\ pc' = [pc EXCEPT ![t] = "lk_read1"]
  /\ loc' = [loc EXCEPT ![t] =
       [NoLoc EXCEPT !.op = "Lookup", !.id = c, !.blocking = blocking]]
  /\ UNCHANGED <<now, cache, lastRequest, secondLastRequest, lastPersist,
                 lastRun, startTime, persistStart, updateCycles, minRefresh,
                 maxRefresh, mutex, fatal, updated, failed, idx, ticks, uvRest>>

LookupReadIgnoresBlocking(t) ==
  /\ Running
  /\ pc[t] = "lk_read1"
  /\ \E v \in ReadOutcomes(t, loc[t].id) :
       IF v.isNil
       THEN /\ pc' = [pc EXCEPT ![t] = "rc_lock"]
            /\ loc' = [loc EXCEPT ![t].hit = FALSE, ![t].force = TRUE,
                                  ![t].newerThan = ZeroTime]
       ELSE /\ pc' = [pc EXCEPT ![t] = "lk_read2"]
            /\ loc' = [loc EXCEPT ![t].hit = ~v.isNil]
  /\ UNCHANGED <<now, cache, lastRequest, secondLastRequest, lastPersist,
                 lastRun, startTime, persistStart, updateCycles, minRefresh,
                 maxRefresh, mutex, fatal, updated, failed, idx, uvOther>>

\* Lookup: r := u.cache[id]; a nil r of a blocking call goes to
\* RefreshCollection(ctx, id, time.Time{}, true)
LookupRead(t) ==
  /\ Running
  /\ pc[t] = "lk_read1"
  /\ \E v \in ReadOutcomes(t, loc[t].id) :
       IF v.isNil /\ loc[t].blocking
       THEN /\ pc' = [pc EXCEPT ![t] = "rc_lock"]
            /\ loc' = [loc EXCEPT ![t].hit = FALSE, ![t].force = TRUE,
                                  ![t].newerThan = ZeroTime]
       ELSE /\ pc' = [pc EXCEPT ![t] = "lk_read2"]
            /\ loc' = [loc EXCEPT ![t].hit = ~v.isNil]
  /\ UNCHANGED <<now, cache, lastRequest, secondLastRequest, lastPersist,
                 lastRun, startTime, persistStart, updateCycles, minRefresh,
                 maxRefresh, mutex, fatal, updated, failed, idx, uvOther>>

\* Lookup: r = u.cache[id]; return r (the deferred recordAccess follows)
LookupReturn(t) ==
  /\ Running
  /\ pc[t] = "lk_read2"
  /\ \E v \in ReadOutcomes(t, loc[t].id) :
       loc' = [loc EXCEPT ![t].ret = v]
  /\ pc' = [pc EXCEPT ![t] = "ra_load"]
  /\ UNCHANGED <<now, cache, lastRequest, secondLastRequest, lastPersist,
                 lastRun, startTime, persistStart, updateCycles, minRefresh,
                 maxRefresh, mutex, fatal, updated, failed, idx, uvOther>>

ForceRefreshNoCheck(t, c) ==
  /\ Running
  /\ pc[t] = "idle"
  /\ c \in quota.ids
  /\ calls < quota.calls
  /\ calls' = calls + 1
  /\ pc' = [pc EXCEPT ![t] = "rc_lock"]
  /\ loc' = [loc EXCEPT ![t] =
       [NoLoc EXCEPT !.op = "ForceRefresh", !.id = c, !.start = now,
                     !.force = TRUE, !.newerThan = now - ForceDelta]]
  /\ UNCHANGED <<now, cache, lastRequest, secondLastRequest, lastPersist,
                 lastRun, startTime, persistStart, updateCycles, minRefresh,
                 maxRefresh, mutex, fatal, updated, failed, idx, ticks, uvRest>>

\* a handler thread calls ForceRefresh(ctx, id): a collection that has
\* never been requested goes to Lookup(ctx, id, true), any other to
\* RefreshCollection(ctx, id, start - 1s, true)
ForceRefresh(t, c) ==
  /\ Running
  /\ pc[t] = "idle"
  /\ c \in quota.ids
  /\ calls < quota.calls
  /\ calls' = calls + 1
  /\ IF IsZero(lastRequest[c])
     THEN /\ pc' = [pc EXCEPT ![t] = "lk_read1"]
          /\ loc' = [loc EXCEPT ![t] =
               [NoLoc EXCEPT !.op = "ForceRefresh", !.id = c,
                             !.fallback = TRUE, !.blocking = TRUE,
                             !.outer = TRUE]]
     ELSE /\ pc' = [pc EXCEPT ![t] = "rc_lock"]
          /\ loc' = [loc EXCEPT ![t] =
               [NoLoc EXCEPT !.op = "ForceRefresh", !.id = c, !.start = now,
                             !.force = TRUE, !.newerThan = now - ForceDelta]]
  /\ UNCHANGED <<now, cache, lastRequest, secondLastRequest, lastPersist,
                 lastRun, startTime, persistStart, updateCycles, minRefresh,
                 maxRefresh, mutex, fatal, updated, failed, idx, ticks, uvRest>>

\* ForceRefresh: return u.cache[id]
ForceRefreshReturn(t) ==
  /\ Running
  /\ pc[t] = "fr_read"
  /\ \E v \in ReadOutcomes(t, loc[t].id) :
       loc' = [loc EXCEPT ![t].ret = v]
  /\ pc' = [pc EXCEPT ![t] = "ra_load"]
  /\ UNCHANGED <<now, cache, lastRequest, secondLastRequest, lastPersist,
                 lastRun, startTime, persistStart, updateCycles, minRefresh,
                 maxRefresh, mutex, fatal, updated, failed, idx, uvOther>>

\* recordAccess: last := u.lastRequested(id)
recordAccessLoad(t) ==
  /\ Running
  /\ pc[t] = "ra_load"
  /\ loc' = [loc EXCEPT ![t].last = lastRequested(loc[t].id)]
  /\ pc' = [pc EXCEPT ![t] = "ra_second"]
  /\ UNCHANGED <<now, cache, lastRequest, secondLastRequest, lastPersist,
                 lastRun, startTime, persistStart, updateCycles, minRefresh,
                 maxRefresh, mutex, fatal, updated, failed, idx, uvOther>>

\* recordAccess: if !last.IsZero() { u.secondLastRequest.Store(id, last) }
recordAccessSecond(t) ==
  /\ Running
  /\ pc[t] = "ra_second"
  /\ secondLastRequest' =
       IF IsZero(loc[t].last) THEN secondLastRequest
       ELSE [secondLastRequest EXCEPT ![loc[t].id] = loc[t].last]
  /\ pc' = [pc EXCEPT ![t] = "ra_last"]
  /\ UNCHANGED <<now, cache, lastRequest, lastPersist,
                 lastRun, startTime, persistStart, updateCycles, minRefresh,
                 maxRefresh, mutex, fatal, loc, updated, failed, idx, uvOther>>

\* recordAccess: u.lastRequest.Store(id, time.Now()); the call returns,
\* or, after the Lookup inside ForceRefresh, the deferred recordAccess of
\* ForceRefresh itself begins
recordAccessLast(t) ==
  /\ Running
  /\ pc[t] = "ra_last"
  /\ lastRequest' = [lastRequest EXCEPT ![loc[t].id] = now]
  /\ pc' = [pc EXCEPT ![t] = IF loc[t].outer THEN "ra_load" ELSE "done"]
  /\ loc' = [loc EXCEPT ![t].outer = FALSE, ![t].last = ZeroTime]
  /\ UNCHANGED <<now, cache, secondLastRequest, lastPersist,
                 lastRun, startTime, persistStart, updateCycles, minRefresh,
                 maxRefresh, mutex, fatal, updated, failed, idx, uvOther>>

\* the handler thread is free for its next request
Return(t) ==
  /\ Running
  /\ pc[t] = "done"
  /\ pc' = [pc EXCEPT ![t] = "idle"]
  /\ loc' = [loc EXCEPT ![t] = NoLoc]
  /\ UNCHANGED <<now, cache, lastRequest, secondLastRequest, lastPersist,
                 lastRun, startTime, persistStart, updateCycles, minRefresh,
                 maxRefresh, mutex, fatal, updated, failed, idx, uvOther>>

Next ==
  \/ Advance
  \/ RunOnce
  \/ LoopEnd
  \/ \E t \in Workers : RefreshCollection(t)
  \/ \E t \in Workers : updateFailed(t)
  \/ \E t \in Workers : updateExecuted(t)
  \/ \E t \in Workers : updateStore(t)
  \/ \E p \in Persisters : PersistTest(p)
  \/ \E p \in Persisters : PersistSet(p)
  \/ \E p \in Persisters : \E err \in BOOLEAN : PersistDone(p, err)
  \/ \E t \in Readers : \E c \in Collections : \E b \in BOOLEAN : Lookup(t, c, b)
  \/ \E t \in Readers : LookupRead(t)
  \/ \E t \in Readers : LookupReturn(t)
  \/ \E t \in Readers : \E c \in Collections : ForceRefresh(t, c)
  \/ \E t \in Readers : ForceRefreshReturn(t)
  \/ \E t \in Readers : MapReadFatal(t)
  \/ \E t \in Readers : recordAccessLoad(t)
  \/ \E t \in Readers : recordAccessSecond(t)
  \/ \E t \in Readers : recordAccessLast(t)
  \/ \E t \in Readers : Return(t)

\* --------------------------------------------------------------- shouldUpdate
\* the instants SpecDecide draws its times from
Instants == {t \in {0, 10, 20, 30, 40, 50, 60, 70, 80, 90, 100} : t <= MaxNow}
Upto(t) == {i \in Instants : i <= t}

\* SpecDecide: the updater at rest in any state of its clock, cache entry,
\* request times, start time, cycle count and refresh ages; both collections
\* carry the same entry and the same request times, c2 is used for stats
InitDecide ==
  /\ InitOther
  /\ quota = [ticks |-> 0, calls |-> 0, ids |-> {}]
  /\ \E cfg \in {<<30, 600>>, <<10, 20>>} :
       minRefresh = cfg[1] /\ maxRefresh = cfg[2]
  /\ now \in Instants
  /\ updateCycles \in 1 .. 3
  /\ \E r \in {NilResult} \cup {Result(t) : t \in Upto(now)} :
       cache = [c \in Collections |-> r]
  /\ \E q \in {ZeroTime} \cup Upto(now) :
       /\ lastRequest = [c \in Collections |-> q]
       /\ \E q2 \in {ZeroTime} \cup (IF IsZero(q) THEN {} ELSE Upto(q)) :
            /\ secondLastRequest = [c \in Collections |-> q2]
            /\ startTime \in (IF IsZero(q2) /\ ~IsZero(q) THEN Upto(now) ELSE {0})
  /\ lastPersist = ZeroTime
  /\ lastRun = now
  /\ persistStart = ZeroTime
  /\ mutex = NoThread
  /\ fatal = FALSE
  /\ pc = [t \in Workers \cup Persisters |-> "idle"]
  /\ loc = [t \in Workers |-> NoLoc]
  /\ updated = FALSE
  /\ failed = {}
  /\ idx = 0
  /\ ticks = 0
  /\ calls = 0

\* RefreshCollection asks shouldUpdate(s.ID, s.UsedForStats, force)
Decide(c, force) ==
  /\ ~decision.taken
  /\ decision' = [taken |-> TRUE, id |-> c, force |-> force,
                  reason |-> shouldUpdate(c, UsedForStats(c), force)]
  /\ UNCHANGED <<updaterVars, search, mem, conv>>

NextDecide == \E c \in Collections : \E force \in BOOLEAN : Decide(c, force)

\* ------------------------------------------------------------------ search
\* the listings the upstream holds: items named by their URL, and the time
\* each item was updated at
OpenListings == {<<>>, <<"u1">>, <<"u1", "u2">>}
ClosedListings == {<<>>, <<"u3">>, <<"u1", "u3">>}
UpdatedAt(u) == IF u = "u1" THEN 0 - 3 ELSE IF u = "u2" THEN 0 - 2 ELSE 0 - 4
\* the timestamps cachedIssues and cachedPRs deliver with a listing
FetchTimes == {0 - 2, 0 - 1}

\* the filter lists of the searches: up to MaxFilters filters, each setting
\* no field, a state or one of the closed-comment fields
SearchFilters ==
  {NoFilter}
  \cup {[NoFilter EXCEPT !.State = st] : st \in {"open", "closed", "all"}}
  \cup {[NoFilter EXCEPT !.ClosedCommenters = ">1"],
        [NoFilter EXCEPT !.ClosedComments = ">0"]}
SearchFilterLists == UNION {[1 .. m -> SearchFilters] : m \in 0 .. MaxFilters}

\* openByDefault: a list in which no filter sets a state gets the filter
\* state: open appended
openByDefault(fs) ==
  IF \E n \in 1 .. Len(fs) : fs[n].State # "" THEN fs
  ELSE Append(fs, [NoFilter EXCEPT !.State = "open"])

RECURSIVE NeedsClosedOfClosedKeysOnly(_)
NeedsClosedOfClosedKeysOnly(fs) ==
  IF fs = <<>> THEN FALSE
  ELSE IF Head(fs).ClosedCommenters # "" THEN TRUE
  ELSE IF Head(fs).ClosedComments # "" THEN TRUE
  ELSE NeedsClosedOfClosedKeysOnly(Tail(fs))

\* NeedsClosed: the loop over the filters with its three returns
RECURSIVE NeedsClosed(_)
NeedsClosed(fs) ==
  IF fs = <<>> THEN FALSE
  ELSE IF Head(fs).ClosedCommenters # "" THEN TRUE
  ELSE IF Head(fs).ClosedComments # "" THEN TRUE
  ELSE IF Head(fs).State # "" /\ Head(fs).State # "open" THEN TRUE
  ELSE NeedsClosed(Tail(fs))

\* a request to cachedIssues / cachedPRs: the state and the update age
ListRequest(state, updateAge) == [state |-> state, updateAge |-> updateAge]

InitSearch ==
  /\ InitUpdater
  /\ minRefresh = loopMinRefresh
  /\ maxRefresh = loopMaxRefresh
  /\ quota = [ticks |-> 0, calls |-> 0, ids |-> {}]
  /\ decision = [taken |-> FALSE, id |-> "c1", force |-> FALSE,
                 reason |-> NoReason]
  /\ search = NoSearch
  /\ mem = NoMem
  /\ conv = NoConv

\* SearchIssues is called with the filters fs: fs = openByDefault(fs),
\* age := time.Now(), the two goroutines start
SearchIssues(fs) ==
  /\ search.phase = "off"
  /\ search' = [NoSearch EXCEPT !.phase = "fetch", !.kind = "issues",
                                !.fs = openByDefault(fs),
                                !.needsClosed = NeedsClosed(openByDefault(fs)),
                                !.age = now]
  /\ UNCHANGED <<updaterVars, decision, mem, conv>>

\* SearchPullRequests is called with the filters fs
SearchPullRequests(fs) ==
  /\ search.phase = "off"
  /\ search' = [NoSearch EXCEPT !.phase = "fetch", !.kind = "prs",
                                !.fs = openByDefault(fs),
                                !.needsClosed = NeedsClosed(openByDefault(fs)),
                                !.age = now]
  /\ UNCHANGED <<updaterVars, decision, mem, conv>>

\* the request of the open goroutine: the arguments "open", 0 of part_001,
\* or the search parameters sp as they are at the call in part_000
OpenRequest ==
  IF search.variant = "sp"
  THEN ListRequest(search.sp.State, search.sp.UpdateAge)
  ELSE ListRequest("open", 0)

\* the goroutine of the open listing: cachedIssues / cachedPRs fails (the
\* error is logged, the goroutine returns) or delivers the listing and its
\* timestamp, which is compared with age
OpenFetch(fails, listing, t) ==
  /\ search.phase = "fetch"
  /\ search.openStep = "run"
  /\ search' = IF fails
               THEN [search EXCEPT !.openStep = "done", !.openFailed = TRUE,
                                   !.requests = @ \cup {OpenRequest}]
               ELSE [search EXCEPT !.openStep = "fetched", !.oi = listing,
                                   !.ots = t, !.olower = (t < search.age),
                                   !.requests = @ \cup {OpenRequest}]
  /\ UNCHANGED <<updaterVars, decision, mem, conv>>

\* if ots.Before(age) { age = ots }; open = oi
OpenStore ==
  /\ search.phase = "fetch"
  /\ search.openStep = "fetched"
  /\ search' = [search EXCEPT
       !.openStep = "done",
       !.age = IF search.olower THEN search.ots ELSE search.age,
       !.open = search.oi]
  /\ UNCHANGED <<updaterVars, decision, mem, conv>>

\* the request of the closed goroutine: the arguments "closed",
\* h.MaxClosedUpdateAge of part_001, or sp as it is at the call in part_000
ClosedRequest ==
  IF search.variant = "sp"
  THEN ListRequest(search.sp.State, search.sp.UpdateAge)
  ELSE ListRequest("closed", MaxClosedUpdateAge)

\* the goroutine of the closed listing: returns at once without
\* NeedsClosed; a failed fetch is logged, then SearchPullRequests returns
\* while SearchIssues goes on with the nil listing and the zero timestamp
ClosedFetch(fails, listing, t) ==
  /\ search.phase = "fetch"
  /\ search.closedStep = "run"
  /\ search' =
       IF ~search.needsClosed
       THEN [search EXCEPT !.closedStep = "done"]
       ELSE IF fails /\ search.kind = "prs"
       THEN [search EXCEPT !.closedStep = "done", !.closedFailed = TRUE,
                           !.requests = @ \cup {ClosedRequest}]
       ELSE IF fails
       THEN [search EXCEPT !.closedStep = "fetched", !.closedFailed = TRUE,
                           !.ci = <<>>, !.cts = ZeroTime,
                           !.clower = (ZeroTime < search.age),
                           !.requests = @ \cup {ClosedRequest}]
       ELSE [search EXCEPT !.closedStep = "fetched", !.ci = listing,
                           !.cts = t, !.clower = (t < search.age),
                           !.requests = @ \cup {ClosedRequest}]
  /\ UNCHANGED <<updaterVars, decision, mem, conv>>

\* if cts.Before(age) { age = cts }; closed = ci
ClosedStore ==
  /\ search.phase = "fetch"
  /\ search.closedStep = "fetched"
  /\ search' = [search EXCEPT
       !.closedStep = "done",
       !.age = IF search.clower THEN search.cts ELSE search.age,
       !.closed = search.ci]
  /\ UNCHANGED <<updaterVars, decision, mem, conv>>

\* the items of a sequence whose URL has not been seen before
RECURSIVE Unseen(_, _)
Unseen(is, seen) ==
  IF is = <<>> THEN <<>>
  ELSE IF Head(is) \in seen THEN Unseen(Tail(is), seen)
  ELSE <<Head(is)>> \o Unseen(Tail(is), seen \cup {Head(is)})

\* the latest UpdatedAt of a sequence of items, from the zero time on
RECURSIVE Latest(_, _)
Latest(is, latest) ==
  IF is = <<>> THEN latest
  ELSE Latest(Tail(is), IF UpdatedAt(Head(is)) > latest
                        THEN UpdatedAt(Head(is)) ELSE latest)

\* after wg.Wait(): the listings are appended; SearchIssues drops the URLs
\* it has seen and returns (filtered, age, nil), SearchPullRequests returns
\* (filtered, latest, nil) in part_001 and (filtered, age, nil) in part_000
SearchReturn ==
  /\ search.phase = "fetch"
  /\ search.openStep = "done"
  /\ search.closedStep = "done"
  /\ search' = [search EXCEPT
       !.phase = "done",
       !.filtered = IF search.kind = "issues"
                    THEN Unseen(search.open \o search.closed, {})
                    ELSE search.open \o search.closed,
       !.ts = IF search.kind = "issues" \/ search.variant = "sp"
              THEN search.age
              ELSE Latest(search.open \o search.closed, ZeroTime),
       !.err = NoError]
  /\ UNCHANGED <<updaterVars, decision, mem, conv>>

\* part_000: SearchIssues(sp) and SearchPullRequests(sp) get the search
\* parameters sp by value; the two goroutines write the fields State and
\* UpdateAge of the one sp before they hand it to the fetcher
SearchIssuesSP(fs) ==
  /\ search.phase = "off"
  /\ search' = [NoSearch EXCEPT !.phase = "fetch", !.kind = "issues",
                                !.variant = "sp",
                                !.fs = openByDefault(fs),
                                !.needsClosed = NeedsClosed(openByDefault(fs)),
                                !.age = now,
                                !.openStep = "state", !.closedStep = "check"]
  /\ UNCHANGED <<updaterVars, decision, mem, conv>>

SearchPullRequestsSP(fs) ==
  /\ search.phase = "off"
  /\ search' = [NoSearch EXCEPT !.phase = "fetch", !.kind = "prs",
                                !.variant = "sp",
                                !.fs = openByDefault(fs),
                                !.needsClosed = NeedsClosed(openByDefault(fs)),
                                !.age = now,
                                !.openStep = "state", !.closedStep = "check"]
  /\ UNCHANGED <<updaterVars, decision, mem, conv>>

\* open goroutine: sp.State = constants.OpenState
OpenSetState ==
  /\ search.phase = "fetch"
  /\ search.openStep = "state"
  /\ search' = [search EXCEPT
       !.sp.State = "open",
       !.openStep = IF search.kind = "prs" THEN "age" ELSE "run"]
  /\ UNCHANGED <<updaterVars, decision, mem, conv>>

\* open goroutine of SearchPullRequests: sp.UpdateAge = 0
OpenSetUpdateAge ==
  /\ search.phase = "fetch"
  /\ search.openStep = "age"
  /\ search' = [search EXCEPT !.sp.UpdateAge = 0, !.openStep = "run"]
  /\ UNCHANGED <<updaterVars, decision, mem, conv>>

\* closed goroutine: if !NeedsClosed(sp.Filters) { return }
ClosedNeedsClosed ==
  /\ search.phase = "fetch"
  /\ search.closedStep = "check"
  /\ search' = [search EXCEPT
       !.closedStep = IF ~search.needsClosed THEN "done"
                      ELSE IF search.kind = "issues" THEN "state"
                      ELSE "age"]
  /\ UNCHANGED <<updaterVars, decision, mem, conv>>

\* closed goroutine: sp.State = constants.ClosedState, the first of its two
\* writes in SearchIssues, the second in SearchPullRequests
ClosedSetState ==
  /\ search.phase = "fetch"
  /\ search.closedStep = "state"
  /\ search' = [search EXCEPT
       !.sp.State = "closed",
       !.closedStep = IF search.kind = "issues" THEN "age" ELSE "run"]
  /\ UNCHANGED <<updaterVars, decision, mem, conv>>

\* closed goroutine: sp.UpdateAge = h.MaxClosedUpdateAge
ClosedSetUpdateAge ==
  /\ search.phase = "fetch"
  /\ search.closedStep = "age"
  /\ search' = [search EXCEPT
       !.sp.UpdateAge = MaxClosedUpdateAge,
       !.closedStep = IF search.kind = "issues" THEN "run" ELSE "state"]
  /\ UNCHANGED <<updaterVars, decision, mem, conv>>

NextParams ==
  \/ \E fs \in SearchFilterLists : SearchIssuesSP(fs)
  \/ \E fs \in SearchFilterLists : SearchPullRequestsSP(fs)
  \/ OpenSetState
  \/ OpenSetUpdateAge
  \/ \E fails \in BOOLEAN : \E l \in OpenListings : \E t \in FetchTimes :
       OpenFetch(fails, l, t)
  \/ OpenStore
  \/ ClosedNeedsClosed
  \/ ClosedSetState
  \/ ClosedSetUpdateAge
  \/ \E fails \in BOOLEAN : \E l \in ClosedListings : \E t \in FetchTimes :
       ClosedFetch(fails, l, t)
  \/ ClosedStore
  \/ SearchReturn

NextSearch ==
  \/ \E fs \in SearchFilterLists : SearchIssues(fs)
  \/ \E fs \in SearchFilterLists : SearchPullRequests(fs)
  \/ \E fails \in BOOLEAN : \E l \in OpenListings : \E t \in FetchTimes :
       OpenFetch(fails, l, t)
  \/ OpenStore
  \/ \E fails \in BOOLEAN : \E l \in ClosedListings : \E t \in FetchTimes :
       ClosedFetch(fails, l, t)
  \/ ClosedStore
  \/ SearchReturn

\* ---------------------------------------------------- the item loop of a search
\* tag.Tags: the tags a filter can ask for, with what each needs fetched
Tags ==
  {[ID |-> "assigned", NeedsComments |-> FALSE, NeedsTimeline |-> FALSE,
    NeedsReviews |-> FALSE],
   [ID |-> "commented", NeedsComments |-> TRUE, NeedsTimeline |-> FALSE,
    NeedsReviews |-> FALSE],
   [ID |-> "new-commits", NeedsComments |-> FALSE, NeedsTimeline |-> TRUE,
    NeedsReviews |-> FALSE],
   [ID |-> "approved", NeedsComments |-> FALSE, NeedsTimeline |-> FALSE,
    NeedsReviews |-> TRUE]}

\* matchTag(tag.Tags, f.TagRegex(), f.TagNegate()): the tags the expression
\* of the filter matches; an expression is written as the tag it names
matchTag(tags, re) == {t \in tags : t.ID = re}

\* f.TagRegex() != nil and the tag it matches has the field need set
TagNeeds(f, need) ==
  /\ f.Tag # ""
  /\ \E t \in matchTag(Tags, f.Tag) : t[need]

ListedItems ==
  [State : {"open", "closed"}, Milestone : BOOLEAN, Created : {0 - 5},
   Updated : {0 - 5, 0 - 3}, Comments : {0, 1}]

ItemFilters ==
  {NoFilter}
  \cup {[NoFilter EXCEPT !.Tag = re] :
          re \in {"assigned", "commented", "new-commits", "approved", "none"}}
  \cup {[NoFilter EXCEPT !.ClosedComments = ">0"],
        [NoFilter EXCEPT !.Responded = "+1d"],
        [NoFilter EXCEPT !.Prioritized = "+1d"]}
ItemFilterLists == UNION {[1 .. m -> ItemFilters] : m \in 0 .. MaxFilters}

\* the body of the loop over the filters of needComments
CommentsFilter(f) ==
  \/ TagNeeds(f, "NeedsComments")
  \/ f.ClosedCommenters # "" \/ f.ClosedComments # ""
  \/ f.Responded # "" \/ f.Commenters # ""

needCommentsAlways(i, fs) == TRUE

\* needComments of part_001: after the loop, if i.GetState() != "open"
\* { return false }; return true
needComments(i, fs) ==
  IF \E k \in 1 .. Len(fs) : CommentsFilter(fs[k]) THEN TRUE
  ELSE IF i.State # "open" THEN FALSE
  ELSE TRUE

\* needComments of part_000 (the item is an interfaces.IItem): after the
\* loop, return i.GetState() == "open"
needCommentsIItem(i, fs) ==
  IF \E k \in 1 .. Len(fs) : CommentsFilter(fs[k]) THEN TRUE
  ELSE i.State = "open"

needTimeline(i, fs, pr, hidden) ==
  IF i.Milestone THEN TRUE
  ELSE IF i.State # "open" THEN FALSE
  ELSE IF i.Updated = i.Created THEN FALSE
  ELSE IF pr THEN TRUE
  ELSE IF \E k \in 1 .. Len(fs) :
            TagNeeds(fs[k], "NeedsTimeline") \/ fs[k].Prioritized # ""
       THEN TRUE
  ELSE IF hidden THEN FALSE
  ELSE TRUE

needReviews(i, fs, hidden) ==
  IF i.State # "open" THEN FALSE
  ELSE IF i.Updated = i.Created THEN FALSE
  ELSE IF hidden THEN FALSE
  ELSE IF \E k \in 1 .. Len(fs) : TagNeeds(fs[k], "NeedsReviews") THEN TRUE
  ELSE TRUE

\* h.mtime(i): the time the item was updated at
mtimeItem(i) == i.Updated

\* an enrichment request: what is fetched, its newer-than bound and whether
\* fetching from the upstream is allowed
Request(op, newer, fetch) == [op |-> op, newer |-> newer, fetch |-> fetch]

\* the request part_001 issues for the item at hand: the comments and the
\* timeline newer than h.mtime(i), the linked pull requests newer than
\* mostRecentUpdate, each with the flag !newerThan.IsZero()
ArgsRequest(op) ==
  Request(op,
          IF op = "updateLinkedPRs" THEN search.mostRecentUpdate
          ELSE mtimeItem(search.i),
          ~IsZero(search.newerThan))

\* an entry of the log of the steps of one item: a match and its outcome, a
\* need* decision and its result, a fetch and whether it succeeded
Step(op, ok) == [op |-> op, ok |-> ok]

InitItems ==
  /\ InitUpdater
  /\ minRefresh = loopMinRefresh
  /\ maxRefresh = loopMaxRefresh
  /\ quota = [ticks |-> 0, calls |-> 0, ids |-> {}]
  /\ decision = [taken |-> FALSE, id |-> "c1", force |-> FALSE,
                 reason |-> NoReason]
  /\ \E kind \in {"issues", "prs"} : \E fs \in ItemFilterLists :
     \E hidden \in BOOLEAN :
       search = [NoSearch EXCEPT !.phase = "items", !.kind = kind,
                                 !.fs = fs, !.hidden = hidden]
  /\ mem = NoMem
  /\ conv = NoConv

\* for _, i := range is: the next item of the listing
ItemStart(i) ==
  /\ search.phase = "items"
  /\ search.step = "idle"
  /\ search.n < MaxItems
  /\ i.Updated <= search.mostRecentUpdate
  /\ search' = [search EXCEPT !.i = i, !.n = @ + 1, !.log = <<>>,
                              !.reqs = <<>>, !.step = "pre"]
  /\ UNCHANGED <<updaterVars, decision, mem, conv>>

\* if !preFetchMatch(i, labels, fs) { continue }
PreFetchMatch(ok) ==
  /\ search.phase = "items"
  /\ search.step = "pre"
  /\ search' = [search EXCEPT
       !.log = Append(@, Step("preFetchMatch", ok)),
       !.step = IF ok THEN "comments" ELSE "idle"]
  /\ UNCHANGED <<updaterVars, decision, mem, conv>>

\* SearchIssues: if needComments(i, fs) && i.GetComments() > 0, the comments
\* are fetched (cachedIssueComments), SearchPullRequests: if
\* needComments(pr, fs) (prComments); an error is logged and nothing else.
\* SearchIssues of part_000 (variant "sp") sets sp.NewerThan = h.mtime(i)
\* and sp.Fetch = !sp.NewerThan.IsZero() before it hands sp to the fetcher
FetchComments(err) ==
  /\ search.phase = "items"
  /\ search.step = "comments"
  /\ LET need == needComments(search.i, search.fs)
         fetch == IF search.kind = "issues"
                  THEN need /\ search.i.Comments > 0
                  ELSE need
         sp == IF fetch /\ search.variant = "sp"
               THEN [search.sp EXCEPT !.NewerThan = mtimeItem(search.i),
                                      !.Fetch = ~IsZero(mtimeItem(search.i))]
               ELSE search.sp
     IN search' = [search EXCEPT
          !.log = Append(@, Step("needComments", need))
                  \o (IF fetch THEN <<Step("comments", ~err)>> ELSE <<>>),
          !.sp = sp,
          !.reqs = IF ~fetch THEN @
                   ELSE IF search.variant = "sp"
                   THEN Append(@, Request("comments", sp.NewerThan, sp.Fetch))
                   ELSE Append(@, ArgsRequest("comments")),
          !.step = IF search.kind = "issues" THEN "summary" ELSE "timeline"]
  /\ UNCHANGED <<updaterVars, decision, mem, conv>>

\* if needTimeline(i, fs, pr, hidden), the timeline is fetched
\* (cachedTimeline) and an error ends the item; SearchIssues goes on with
\* h.addEvents, SearchPullRequests with the reviews.  SearchIssues of
\* part_000 sets sp.UpdateAt = h.mtime(i), which the request carries as its
\* bound, and sp.Fetch = !sp.NewerThan.IsZero()
FetchTimeline(err) ==
  /\ search.phase = "items"
  /\ search.step = "timeline"
  /\ LET need == needTimeline(search.i, search.fs, search.kind = "prs",
                              search.hidden)
         sp == IF search.variant = "sp"
               THEN [search.sp EXCEPT !.UpdateAt = mtimeItem(search.i),
                                      !.Fetch = ~IsZero(search.sp.NewerThan)]
               ELSE search.sp
     IN search' = [search EXCEPT
          !.log = Append(@, Step("needTimeline", need))
                  \o (IF need THEN <<Step("timeline", ~err)>> ELSE <<>>)
                  \o (IF search.kind = "issues" /\ ~(need /\ err)
                      THEN <<Step("addEvents", TRUE)>> ELSE <<>>),
          !.sp = sp,
          !.reqs = IF ~need THEN @
                   ELSE IF search.variant = "sp"
                   THEN Append(@, Request("timeline", sp.UpdateAt, sp.Fetch))
                   ELSE Append(@, ArgsRequest("timeline")),
          !.step = IF need /\ err THEN "idle"
                   ELSE IF search.kind = "issues" THEN "linked"
                   ELSE "reviews"]
  /\ UNCHANGED <<updaterVars, decision, mem, conv>>

\* SearchPullRequests: if needReviews(pr, fs, hidden), the reviews are
\* fetched (cachedReviews) and an error ends the item
FetchReviews(err) ==
  /\ search.phase = "items"
  /\ search.step = "reviews"
  /\ LET need == needReviews(search.i, search.fs, search.hidden)
     IN search' = [search EXCEPT
          !.log = Append(@, Step("needReviews", need))
                  \o (IF need THEN <<Step("reviews", ~err)>> ELSE <<>>),
          !.step = IF need /\ err THEN "idle" ELSE "summary"]
  /\ UNCHANGED <<updaterVars, decision, mem, conv>>

\* SearchIssues: if needReviews(i, fs, hidden) &&
\* len(co.PullRequestRefs) > 0, the linked pull requests are updated;
\* part_000 sets sp.NewerThan = mostRecentUpdate and sp.Fetch before
updateLinkedPRs(refs) ==
  /\ search.phase = "items"
  /\ search.step = "linked"
  /\ LET need == needReviews(search.i, search.fs, search.hidden)
         sp == IF need /\ refs /\ search.variant = "sp"
               THEN [search.sp EXCEPT
                       !.NewerThan = search.mostRecentUpdate,
                       !.Fetch = ~IsZero(search.mostRecentUpdate)]
               ELSE search.sp
     IN search' = [search EXCEPT
          !.log = Append(@, Step("needReviews", need))
                  \o (IF need /\ refs
                      THEN <<Step("updateLinkedPRs", TRUE)>> ELSE <<>>),
          !.sp = sp,
          !.reqs = IF ~(need /\ refs) THEN @
                   ELSE IF search.variant = "sp"
                   THEN Append(@, Request("updateLinkedPRs", sp.NewerThan,
                                          sp.Fetch))
                   ELSE Append(@, ArgsRequest("updateLinkedPRs")),
          !.step = "postEvents"]
  /\ UNCHANGED <<updaterVars, decision, mem, conv>>

\* co := h.IssueSummary(i, comments, age) / h.PRSummary(ctx, pr, comments,
\* timeline, reviews, age, fetch); h.seen[co.URL] = co; FindSimilar
Summary ==
  /\ search.phase = "items"
  /\ search.step = "summary"
  /\ search' = [search EXCEPT
       !.log = Append(@, Step("summary", TRUE)),
       !.step = "postFetch"]
  /\ UNCHANGED <<updaterVars, decision, mem, conv>>

\* if !postFetchMatch(co, fs) { continue }
PostFetchMatch(ok) ==
  /\ search.phase = "items"
  /\ search.step = "postFetch"
  /\ search' = [search EXCEPT
       !.log = Append(@, Step("postFetchMatch", ok)),
       !.step = IF ~ok THEN "idle"
                ELSE IF search.kind = "issues" THEN "timeline"
                ELSE "postEvents"]
  /\ UNCHANGED <<updaterVars, decision, mem, conv>>

\* if !postEventsMatch(co, fs) { continue }; filtered = append(filtered, co)
PostEventsMatch(ok) ==
  /\ search.phase = "items"
  /\ search.step = "postEvents"
  /\ search' = [search EXCEPT
       !.log = Append(@, Step("postEventsMatch", ok)),
       !.filtered = IF ok THEN Append(@, search.n) ELSE @,
       !.step = "idle"]
  /\ UNCHANGED <<updaterVars, decision, mem, conv>>

\* the listing is exhausted: return filtered
ItemsReturn ==
  /\ search.phase = "items"
  /\ search.step = "idle"
  /\ search' = [search EXCEPT !.phase = "done"]
  /\ UNCHANGED <<updaterVars, decision, mem, conv>>

\* SpecRequests: SearchIssues of part_000 goes through the items of a
\* listing whose most recent update is mostRecentUpdate, for a caller that
\* supplied the bound newerThan (the zero time: no fetch allowed)
InitRequests ==
  /\ InitUpdater
  /\ minRefresh = loopMinRefresh
  /\ maxRefresh = loopMaxRefresh
  /\ quota = [ticks |-> 0, calls |-> 0, ids |-> {}]
  /\ decision = [taken |-> FALSE, id |-> "c1", force |-> FALSE,
                 reason |-> NoReason]
  /\ \E fs \in ItemFilterLists : \E hidden \in BOOLEAN :
     \E newerThan \in {ZeroTime, 0 - 10} : \E latest \in {0 - 5, 0 - 3} :
       search = [NoSearch EXCEPT !.phase = "items", !.kind = "issues",
                                 !.variant = "sp",
                                 !.fs = fs, !.hidden = hidden,
                                 !.newerThan = newerThan,
                                 !.sp.NewerThan = newerThan,
                                 !.mostRecentUpdate = latest]
  /\ mem = NoMem
  /\ conv = NoConv

NextRequests ==
  \/ \E i \in ListedItems : ItemStart(i)
  \/ \E ok \in BOOLEAN : PreFetchMatch(ok)
  \/ \E err \in BOOLEAN : FetchComments(err)
  \/ Summary
  \/ \E ok \in BOOLEAN : PostFetchMatch(ok)
  \/ \E err \in BOOLEAN : FetchTimeline(err)
  \/ \E refs \in BOOLEAN : updateLinkedPRs(refs)
  \/ \E ok \in BOOLEAN : PostEventsMatch(ok)
  \/ ItemsReturn

NextItems ==
  \/ \E i \in ListedItems : ItemStart(i)
  \/ \E ok \in BOOLEAN : PreFetchMatch(ok)
  \/ \E err \in BOOLEAN : FetchComments(err)
  \/ Summary
  \/ \E ok \in BOOLEAN : PostFetchMatch(ok)
  \/ \E err \in BOOLEAN : FetchTimeline(err)
  \/ \E err \in BOOLEAN : FetchReviews(err)
  \/ \E refs \in BOOLEAN : updateLinkedPRs(refs)
  \/ \E ok \in BOOLEAN : PostEventsMatch(ok)
  \/ ItemsReturn

\* ------------------------------------------------------------ in-memory cache
\* the times the callers of the cache ask for
CacheTimes == {ZeroTime} \cup ((0 - 1) .. (MaxTime + 1))

\* SpecCache: an empty cache; each Thing of the callers carries a Created
\* time of its own or the zero time
InitCache ==
  /\ InitUpdater
  /\ minRefresh = loopMinRefresh
  /\ maxRefresh = loopMaxRefresh
  /\ quota = [ticks |-> 0, calls |-> 0, ids |-> {}]
  /\ decision = [taken |-> FALSE, id |-> "c1", force |-> FALSE,
                 reason |-> NoReason]
  /\ search = NoSearch
  /\ conv = NoConv
  /\ \E th \in [Things -> {ZeroTime, 0 - 1, 0}] :
       mem = [NoMem EXCEPT !.things = th]

\* c.Get(key) of go-cache: the entry stored under key unless it has expired
Get(key) ==
  IF mem.store[key] # NoThing /\ ~(now > mem.expires[key])
  THEN mem.store[key] ELSE NoThing

newerThanMemServesAll(key, t) == Get(key)

\* newerThanMem: the entry under key unless its Created is before t
newerThanMem(key, t) ==
  IF Get(key) = NoThing THEN NoThing
  ELSE IF mem.things[Get(key)] < t THEN NoThing
  ELSE Get(key)

setMemAlwaysStamps(key, th) ==
  /\ mem' = [mem EXCEPT
       !.things[th] = now,
       !.store[key] = th,
       !.expires[key] = now + MaxLoadAge,
       !.op = [NoOp EXCEPT !.name = "set", !.key = key, !.th = th,
                           !.at = now, !.created = mem.things[th],
                           !.before = mem.store]]
  /\ UNCHANGED <<updaterVars, decision, search, conv>>

\* setMem: stamp a zero Created with time.Now(), then c.Set(key, th,
\* MaxLoadAge)
setMem(key, th) ==
  /\ mem' = [mem EXCEPT
       !.things[th] = IF IsZero(mem.things[th]) THEN now ELSE mem.things[th],
       !.store[key] = th,
       !.expires[key] = now + MaxLoadAge,
       !.op = [NoOp EXCEPT !.name = "set", !.key = key, !.th = th,
                           !.at = now, !.created = mem.things[th],
                           !.before = mem.store]]
  /\ UNCHANGED <<updaterVars, decision, search, conv>>

\* GetNewerThan(key, t) of the memory backend: newerThanMem
GetNewerThan(key, t) ==
  /\ mem' = [mem EXCEPT
       !.op = [NoOp EXCEPT !.name = "get", !.key = key, !.t = t, !.at = now,
                           !.ret = newerThanMem(key, t),
                           !.before = mem.store]]
  /\ UNCHANGED <<updaterVars, decision, search, conv>>

\* deleteOlderMem: keep the entry newerThanMem serves if its Created is
\* after t, else c.Delete(key)
deleteOlderMem(key, t) ==
  /\ mem' = [mem EXCEPT
       !.store[key] =
          IF newerThanMem(key, t) # NoThing
               /\ mem.things[newerThanMem(key, t)] > t
          THEN mem.store[key] ELSE NoThing,
       !.op = [NoOp EXCEPT !.name = "delete", !.key = key, !.t = t,
                           !.at = now, !.th = Get(key),
                           !.created = IF Get(key) = NoThing THEN ZeroTime
                                       ELSE mem.things[Get(key)],
                           !.before = mem.store]]
  /\ UNCHANGED <<updaterVars, decision, search, conv>>

NextCache ==
  \/ Advance
  \/ \E k \in Keys : \E th \in Things : setMem(k, th)
  \/ \E k \in Keys : \E t \in CacheTimes : GetNewerThan(k, t)
  \/ \E k \in Keys : \E t \in CacheTimes : deleteOlderMem(k, t)

\* -------------------------------------------------------- Engine.conversation
\* strings.ToLower on the author associations GitHub sends
ToLower(role) ==
  CASE role = "MEMBER" -> "member"
    [] role = "NONE" -> "none"
    [] OTHER -> role

\* isMember: the login is in the members list or the role is a member role
isMember(user, role) == user \in members \/ ToLower(role) \in memberRoles

\* isBot: the login is one of a bot
isBot(user) == user = "bot"

\* tag.RoleLast(assoc): the tag of the role of the last commenter
RoleLast(assoc) ==
  IF assoc = "member" THEN "role-last:member" ELSE "role-last"

\* the text of a line: its words with one blank between them
RECURSIVE Join(_)
Join(line) ==
  IF Len(line) <= 1 THEN line
  ELSE <<Head(line), Blank>> \o Join(Tail(line))

\* the text of a body: its lines with a newline between them
RECURSIVE Flatten(_)
Flatten(text) ==
  IF text = <<>> THEN <<>>
  ELSE IF Len(text) = 1 THEN Join(text[1])
  ELSE Join(Head(text)) \o <<Newline>> \o Flatten(Tail(text))

\* strings.TrimSpace of a line
RECURSIVE TrimSpace(_)
TrimSpace(line) ==
  IF line = <<>> THEN <<>>
  ELSE IF Head(line) = Blank THEN TrimSpace(Tail(line))
  ELSE IF line[Len(line)] = Blank THEN TrimSpace(SubSeq(line, 1, Len(line) - 1))
  ELSE line

\* strings.HasPrefix(line, ">") and strings.Contains(line, "?")
HasQuotePrefix(line) == line # <<>> /\ Head(line) = ">"
ContainsQuestion(line) == \E n \in 1 .. Len(line) : line[n] = "why?"

\* lines 162-173: some line of the body, trimmed, is no quote line and
\* contains a question mark
asksQuestion(body) ==
  \E n \in 1 .. Len(body) :
    /\ ~HasQuotePrefix(TrimSpace(body[n]))
    /\ ContainsQuestion(TrimSpace(body[n]))

\* codeRe.ReplaceAllString(text, "<code></code>"): every stretch from a fence
\* to the next fence is replaced, a fence without a later one stays
RECURSIVE stripCode(_)
stripCode(toks) ==
  IF toks = <<>> THEN <<>>
  ELSE IF Head(toks) = Fence /\ \E j \in 2 .. Len(toks) : toks[j] = Fence
  THEN LET j == CHOOSE j \in 2 .. Len(toks) :
                  /\ toks[j] = Fence
                  /\ \A m \in 2 .. (j - 1) : toks[m] # Fence
       IN <<"<code></code>">> \o stripCode(SubSeq(toks, j + 1, Len(toks)))
  ELSE <<Head(toks)>> \o stripCode(Tail(toks))

\* the digits of a relative reference "#N" or "#N.", "" for other words
RelDigits(w) ==
  CASE w = "#7" -> "7"
    [] w \in {"#42", "#42."} -> "42"
    [] OTHER -> ""
Punctuated(w) == w = "#42."

\* the org, project and digits of an absolute reference, <<>> for other words
AbsParts(w) ==
  CASE w = OwnUrl -> <<"o", "p", "7">>
    [] w = OtherUrl -> <<"o", "p", "42">>
    [] w = ForeignUrl -> <<"q", "p", "42">>
    [] OTHER -> <<>>

\* strconv.Atoi on the digits of the references
Atoi(d) == IF d = "7" THEN 7 ELSE 42

\* wordRelRefRe (punc FALSE) and puncRelRefRe (punc TRUE),
\* FindAllStringSubmatch: the digits of every "#N" that follows white space,
\* for puncRelRefRe only if punctuation follows the digits
RECURSIVE relMatches(_, _, _)
relMatches(toks, n, punc) ==
  IF n > Len(toks) THEN <<>>
  ELSE (IF /\ n > 1
           /\ toks[n - 1] \in {Blank, Newline}
           /\ RelDigits(toks[n]) # ""
           /\ (punc => Punctuated(toks[n]))
        THEN <<RelDigits(toks[n])>> ELSE <<>>)
       \o relMatches(toks, n + 1, punc)

\* absRefRe.FindAllStringSubmatch
RECURSIVE absMatches(_)
absMatches(toks) ==
  IF toks = <<>> THEN <<>>
  ELSE (IF AbsParts(Head(toks)) # <<>> THEN <<AbsParts(Head(toks))>> ELSE <<>>)
       \o absMatches(Tail(toks))

\* h.mtimeRef(rc) and h.updateMtimeLong(org, project, id, t): the mention
\* times the engine keeps for the referenced items
RefTarget(rc) == [org |-> rc.Organization, project |-> rc.Project, id |-> rc.ID]
mtimeRef(mtime, rc) == mtime[RefTarget(rc)]
updateMtimeLong(mtime, rc, t) == [mtime EXCEPT ![RefTarget(rc)] = t]

\* lines 271 and 302: a reference to the conversation's own item (a relative
\* match carries the org and the project of co)
selfRefNever(m, co) == FALSE

selfRef(m, co) ==
  /\ Atoi(m[3]) = co.ID
  /\ m[1] = co.Organization
  /\ m[2] = co.Project

\* the two loops of parseRefs over the matches ms, each match the org, the
\* project and the digits (the relative ones carry those of co); st is the
\* mention times, co.IssueRefs and the seen map of this call
RECURSIVE addRefs(_, _, _, _)
addRefs(ms, co, t, st) ==
  IF ms = <<>> THEN st
  ELSE LET m == Head(ms)
           rc == [Organization |-> m[1], Project |-> m[2], ID |-> Atoi(m[3]),
                  Seen |-> t]
           key == <<rc.Project, rc.ID>>
       IN addRefs(Tail(ms), co, t,
            IF selfRef(m, co) THEN st
            ELSE [mtime |-> IF t > mtimeRef(st.mtime, rc)
                            THEN updateMtimeLong(st.mtime, rc, t)
                            ELSE st.mtime,
                  refs |-> IF key \in st.seen THEN st.refs
                           ELSE Append(st.refs, rc),
                  seen |-> st.seen \cup {key}])

\* parseRefs(text, co, t) in the call cv: the references of the text update
\* the mention times and are appended to co.IssueRefs.  The texts carry no
\* <details> element, so detailsRe finds nothing to replace.
parseRefs(cv, text, t) ==
  LET toks == stripCode(Flatten(text))
      rel == relMatches(toks, 1, FALSE) \o relMatches(toks, 1, TRUE)
      ms == [n \in 1 .. Len(rel) |->
               <<cv.co.Organization, cv.co.Project, rel[n]>>]
            \o absMatches(toks)
      st == addRefs(ms, cv.co, t,
              [mtime |-> cv.mtime, refs |-> cv.co.IssueRefs, seen |-> {}])
  IN [cv EXCEPT !.co.IssueRefs = st.refs, !.mtime = st.mtime]

\* the grace after the close of an item, in seconds
closedGrace == 30

afterClosedNoGrace(i, c) == ~IsZero(i.closedAt) /\ c.created > i.closedAt

\* line 137: the item is closed and the comment was created after the grace
afterClosed(i, c) ==
  ~IsZero(i.closedAt) /\ c.created > i.closedAt + closedGrace

memberReplyHoldAlways(co, c, authorIsMember) ==
  Sub(c.created, co.LatestAuthorResponse)

\* lines 152-154: what the comment c of a member adds to the accumulated
\* hold time
memberReplyHold(co, c, authorIsMember) ==
  IF ~(co.LatestMemberResponse > co.LatestAuthorResponse) /\ ~authorIsMember
  THEN Sub(c.created, co.LatestAuthorResponse)
  ELSE 0

\* the tag tg is among the tags
HasTag(tags, tg) == \E n \in 1 .. Len(tags) : tags[n] = tg

responseTagsIndependent(co, authorIsMember) ==
  (IF co.LatestMemberResponse > co.LatestAuthorResponse
   THEN <<"send">> ELSE <<>>)
  \o (IF ~authorIsMember THEN <<"recv">> ELSE <<>>)

\* lines 181-190: send if a member responded after the author, else recv if
\* the author is no member
responseTags(co, authorIsMember) ==
  IF co.LatestMemberResponse > co.LatestAuthorResponse THEN <<"send">>
  ELSE IF ~authorIsMember THEN <<"recv">>
  ELSE <<>>

\* conversation, lines 66-113: the Conversation of the item before its
\* comments
conversation ==
  /\ conv.phase = "start"
  /\ LET i == conv.item
         aim == isMember(i.user, i.assoc)
         co == [NoCo EXCEPT
                  !.ID = i.number,
                  !.State = i.state,
                  !.Created = i.created,
                  !.ClosedAt = i.closedAt,
                  !.LatestAuthorResponse = i.created,
                  !.LastCommentAuthor = i.user,
                  !.LastCommentBody = i.body,
                  !.Organization = i.url[4],
                  !.Project = i.url[5]]
         cv == parseRefs([conv EXCEPT !.co = co], i.body, i.updated)
     IN conv' = [cv EXCEPT
          !.phase = "loop",
          !.k = 1,
          !.authorIsMember = aim,
          !.co.Tags = IF i.assignee # NoLogin THEN <<"assigned">> ELSE <<>>,
          !.co.LatestMemberResponse = IF ~aim THEN i.created ELSE ZeroTime,
          !.lastQuestion = ZeroTime,
          !.seenCommenters = {},
          !.seenClosedCommenters = {},
          !.seenMemberComment = FALSE]
  /\ UNCHANGED <<updaterVars, decision, search, mem>>

\* conversation, lines 115-179: one round of the loop over the comments
conversationComment ==
  /\ conv.phase = "loop"
  /\ conv.k <= Len(conv.cs)
  /\ LET i == conv.item
         c == conv.cs[conv.k]
         cv == parseRefs(conv, c.body, c.updated)
         late == afterClosed(i, c)
         co1 == [cv.co EXCEPT
                   !.LastCommentBody = c.body,
                   !.LastCommentAuthor = c.user,
                   !.ClosedCommentsTotal = IF late THEN @ + 1 ELSE @,
                   !.LatestAuthorResponse =
                      IF c.user = i.user THEN c.created ELSE @,
                   !.LatestAssigneeResponse =
                      IF c.user = i.assignee THEN c.created ELSE @]
         member == isMember(c.user, c.assoc) /\ ~isBot(c.user)
         co2 == IF member
                THEN [co1 EXCEPT
                        !.AccumulatedHoldTime =
                           @ + memberReplyHold(co1, c, conv.authorIsMember),
                        !.LatestMemberResponse = c.created,
                        !.Tags = IF conv.seenMemberComment THEN @
                                 ELSE Append(@, "commented")]
                ELSE co1
         co3 == [co2 EXCEPT
                   !.Commenters = IF c.user \in conv.seenCommenters THEN @
                                  ELSE Append(@, c.user)]
     IN IF isBot(c.user)
        THEN conv' = [cv EXCEPT !.k = @ + 1]
        ELSE conv' = [cv EXCEPT
               !.k = @ + 1,
               !.co = co3,
               !.seenClosedCommenters = IF late THEN @ \cup {c.user} ELSE @,
               !.seenMemberComment = @ \/ member,
               !.lastQuestion = IF asksQuestion(c.body) THEN c.created ELSE @,
               !.seenCommenters = @ \cup {c.user}]
  /\ UNCHANGED <<updaterVars, decision, search, mem>>

\* conversation, lines 181-233: the tags, the totals and the check of the
\* accumulated hold time against the age of the item, which panics
conversationReturn ==
  /\ conv.phase = "loop"
  /\ conv.k > Len(conv.cs)
  /\ LET i == conv.item
         co == conv.co
         resp == responseTags(co, conv.authorIsMember)
         send == HasTag(resp, "send")
         recv == HasTag(resp, "recv")
         last == conv.cs[Len(conv.cs)]
         tags == co.Tags
                 \o resp
                 \o (IF conv.lastQuestion > co.LatestMemberResponse
                     THEN <<"recv-q">> ELSE <<>>)
                 \o (IF ~IsZero(co.LatestAssigneeResponse)
                     THEN <<"assignee-updated">> ELSE <<>>)
                 \o (IF Len(conv.cs) = 0 THEN <<>>
                     ELSE IF ToLower(last.assoc) = "none"
                     THEN (IF last.user = i.user
                           THEN <<"author-last">> ELSE <<>>)
                     ELSE <<RoleLast(ToLower(last.assoc))>>)
                 \o (IF co.State = "closed" THEN <<"closed">> ELSE <<>>)
         co1 == [co EXCEPT
                   !.Tags = tags,
                   !.CurrentHoldTime =
                      IF send THEN 0
                      ELSE IF recv THEN @ + Since(co.LatestAuthorResponse)
                      ELSE @,
                   !.AccumulatedHoldTime =
                      IF recv THEN @ + Since(co.LatestAuthorResponse) ELSE @,
                   !.Updated = IF Len(conv.cs) > 0 THEN last.updated ELSE @,
                   !.CommentersTotal = Cardinality(conv.seenCommenters),
                   !.ClosedCommentersTotal =
                      Cardinality(conv.seenClosedCommenters)]
     IN conv' = [conv EXCEPT
          !.co = co1,
          !.phase = IF co1.AccumulatedHoldTime > Since(co1.Created)
                    THEN "panic" ELSE "done"]
  /\ UNCHANGED <<updaterVars, decision, search, mem>>

NextConv ==
  \/ conversation
  \/ conversationComment
  \/ conversationReturn

\* the updater at rest with the clock at n; nothing decided, searched or
\* cached
InitQuiet(n) ==
  /\ now = n
  /\ cache = [c \in Collections |-> NilResult]
  /\ lastRequest = [c \in Collections |-> ZeroTime]
  /\ secondLastRequest = [c \in Collections |-> ZeroTime]
  /\ lastPersist = ZeroTime
  /\ lastRun = ZeroTime
  /\ startTime = ZeroTime
  /\ persistStart = ZeroTime
  /\ updateCycles = 0
  /\ mutex = NoThread
  /\ fatal = FALSE
  /\ pc = [t \in Workers \cup Persisters |-> "idle"]
  /\ loc = [t \in Workers |-> NoLoc]
  /\ updated = FALSE
  /\ failed = {}
  /\ idx = 0
  /\ ticks = 0
  /\ calls = 0
  /\ minRefresh = loopMinRefresh
  /\ maxRefresh = loopMaxRefresh
  /\ quota = [ticks |-> 0, calls |-> 0, ids |-> {}]
  /\ decision = [taken |-> FALSE, id |-> "c1", force |-> FALSE,
                 reason |-> NoReason]
  /\ search = NoSearch
  /\ mem = NoMem

\* the sequences over S of length up to n
SeqsUpTo(S, n) == UNION {[1 .. m -> S] : m \in 0 .. n}

\* a comment without text created and updated at t
Comment(user, assoc, t) ==
  [user |-> user, assoc |-> assoc, created |-> t, updated |-> t, body |-> <<>>]

\* SpecConv: an open item created at 0 by an author who is a member by role
\* or no member, seen at 6, with up to MaxComments comments in any order of
\* their times: of the author, of a listed member, of an outsider with a
\* member role, of a bot
HoldTimes == {0, 1, 3, 6}
HoldComments(assoc) ==
  {Comment(Author, assoc, t) : t \in HoldTimes}
  \cup {Comment("m1", "NONE", t) : t \in HoldTimes}
  \cup {Comment("x", "MEMBER", t) : t \in HoldTimes}
  \cup {Comment("bot", "NONE", t) : t \in HoldTimes}
InitConv ==
  /\ InitQuiet(6)
  /\ \E assoc \in {"NONE", "MEMBER"} :
       \E cs \in SeqsUpTo(HoldComments(assoc), MaxComments) :
         conv = [NoConv EXCEPT !.phase = "start",
                               !.item = [NoItem EXCEPT !.assoc = assoc],
                               !.cs = cs]

\* SpecClosed: an item of a non-member, open or closed at 0, with or without
\* an assignee, seen at 45, with up to MaxClosedComments comments created 5,
\* 30 or 45 seconds after 0
ClosedTimes == {5, 30, 45}
ClosedComments ==
  {Comment(u, "NONE", t) : u \in Logins, t \in ClosedTimes}
InitClosed ==
  /\ InitQuiet(45)
  /\ \E closedAt \in {ZeroTime, 0} : \E assignee \in {NoLogin, "m1"} :
       \E cs \in SeqsUpTo(ClosedComments, MaxClosedComments) :
         conv = [NoConv EXCEPT
                   !.phase = "start",
                   !.item = [NoItem EXCEPT
                               !.closedAt = closedAt,
                               !.assignee = assignee,
                               !.state = IF IsZero(closedAt) THEN "open"
                                         ELSE "closed"],
                   !.cs = cs]

\* SpecQuestion: an item created at 0 with one comment at 1, of an outsider
\* or of a listed member, whose body is any text of up to MaxLines lines of
\* up to MaxWords words
QuestionWords == {Blank, ">", "why?", "see", Fence}
InitQuestion ==
  /\ InitQuiet(1)
  /\ \E assoc \in {"NONE", "MEMBER"} : \E u \in {"x", "m1"} :
       \E body \in SeqsUpTo(SeqsUpTo(QuestionWords, MaxWords), MaxLines) :
         conv = [NoConv EXCEPT
                   !.phase = "start",
                   !.item = [NoItem EXCEPT !.assoc = assoc],
                   !.cs = <<[Comment(u, "NONE", 1) EXCEPT !.body = body]>>]

\* SpecRefs: the item o/p#7 whose body is one line, "see" and up to
\* MaxBodyWords references or fences, with up to MaxRefComments comments
\* updated at 1 or 2, each "see" and at most one reference
RefWords == {"#42", "#42.", "#7", OwnUrl, OtherUrl, ForeignUrl, Fence}
RefText(ws) == << <<"see">> \o ws >>
RefComments ==
  {[Comment("x", "NONE", t) EXCEPT !.body = RefText(ws)] :
     t \in {1, 2}, ws \in SeqsUpTo(RefWords, 1)}
InitRefs ==
  /\ InitQuiet(2)
  /\ \E ws \in SeqsUpTo(RefWords, MaxBodyWords) :
       \E cs \in SeqsUpTo(RefComments, MaxRefComments) :
         conv = [NoConv EXCEPT
                   !.phase = "start",
                   !.item = [NoItem EXCEPT !.body = RefText(ws)],
                   !.cs = cs]

\* the handler thread r1 alone
NextCall ==
  \/ Advance
  \/ RefreshCollection(Handler)
  \/ updateFailed(Handler)
  \/ updateExecuted(Handler)
  \/ updateStore(Handler)
  \/ \E c \in Collections : \E b \in BOOLEAN : Lookup(Handler, c, b)
  \/ LookupRead(Handler)
  \/ LookupReturn(Handler)
  \/ \E c \in Collections : ForceRefresh(Handler, c)
  \/ ForceRefreshReturn(Handler)
  \/ recordAccessLoad(Handler)
  \/ recordAccessSecond(Handler)
  \/ recordAccessLast(Handler)
  \/ Return(Handler)

\* SpecStale: the updater at rest two or three cycles into its run, RunOnce
\* has run a second ago; each collection holds a result created now,
\* WarmAge or StaleAge seconds ago, and was never requested, requested a
\* second ago or WarmAge seconds ago, once or twice; no reader calls
InitStale ==
  /\ now = 0
  /\ cache \in [Collections -> {Result(0 - StaleAge), Result(0 - WarmAge),
                                Result(0)}]
  /\ lastRequest \in [Collections -> {ZeroTime, 0 - 1, 0 - WarmAge}]
  /\ secondLastRequest \in [Collections -> {ZeroTime, 0 - StaleAge}]
  /\ \A c \in Collections :
       IsZero(lastRequest[c]) => IsZero(secondLastRequest[c])
  /\ lastPersist = 0 - 2
  /\ lastRun = 0 - 1
  /\ startTime = 0 - StaleAge
  /\ persistStart = ZeroTime
  /\ updateCycles \in {2, 3}
  /\ mutex = NoThread
  /\ fatal = FALSE
  /\ pc = [t \in Workers \cup Persisters |-> "idle"]
  /\ loc = [t \in Workers |-> NoLoc]
  /\ updated = FALSE
  /\ failed = {}
  /\ idx = 0
  /\ ticks = 0
  /\ calls = 0
  /\ minRefresh = loopMinRefresh
  /\ maxRefresh = loopMaxRefresh
  /\ quota = [ticks |-> MaxTicks, calls |-> 0, ids |-> {}]
  /\ InitOther

\* SpecPersist: the loop and its Persist goroutines from the start, with
\* the clock PersistLead seconds before the epoch, so that a tick can come
\* more than maxRefresh after a Persist has returned
InitPersist ==
  /\ now = 0 - PersistLead
  /\ cache = [c \in Collections |-> NilResult]
  /\ lastRequest = [c \in Collections |-> ZeroTime]
  /\ secondLastRequest = [c \in Collections |-> ZeroTime]
  /\ lastPersist = ZeroTime
  /\ lastRun = ZeroTime
  /\ startTime = ZeroTime
  /\ persistStart = ZeroTime
  /\ updateCycles = 0
  /\ mutex = NoThread
  /\ fatal = FALSE
  /\ pc = [t \in Workers \cup Persisters |-> "idle"]
  /\ loc = [t \in Workers |-> NoLoc]
  /\ updated = FALSE
  /\ failed = {}
  /\ idx = 0
  /\ ticks = 0
  /\ calls = 0
  /\ minRefresh = loopMinRefresh
  /\ maxRefresh = loopMaxRefresh
  /\ quota = [ticks |-> BootTicks, calls |-> 0, ids |-> {}]
  /\ InitOther

\* the loop thread, the Persist goroutines and the handler thread r1
NextStart ==
  \/ Advance
  \/ RunOnce
  \/ LoopEnd
  \/ \E t \in {LoopThread, Handler} : RefreshCollection(t)
  \/ \E t \in {LoopThread, Handler} : updateFailed(t)
  \/ \E t \in {LoopThread, Handler} : updateExecuted(t)
  \/ \E t \in {LoopThread, Handler} : updateStore(t)
  \/ \E p \in Persisters : PersistTest(p)
  \/ \E p \in Persisters : PersistSet(p)
  \/ \E p \in Persisters : \E err \in BOOLEAN : PersistDone(p, err)
  \/ MapReadFatal(Handler)
  \/ \E c \in Collections : \E b \in BOOLEAN : Lookup(Handler, c, b)
  \/ LookupRead(Handler)
  \/ LookupReturn(Handler)
  \/ \E c \in Collections : ForceRefresh(Handler, c)
  \/ ForceRefreshReturn(Handler)
  \/ recordAccessLoad(Handler)
  \/ recordAccessSecond(Handler)
  \/ recordAccessLast(Handler)
  \/ Return(Handler)

\* the loop thread and the Persist goroutines alone
NextBoot ==
  \/ Advance
  \/ RunOnce
  \/ LoopEnd
  \/ RefreshCollection(LoopThread)
  \/ updateFailed(LoopThread)
  \/ updateExecuted(LoopThread)
  \/ updateStore(LoopThread)
  \/ \E p \in Persisters : PersistTest(p)
  \/ \E p \in Persisters : PersistSet(p)
  \/ \E p \in Persisters : \E err \in BOOLEAN : PersistDone(p, err)

Spec == Init /\ [][Next]_vars
SpecStart == InitStart /\ [][NextStart]_vars
SpecCall == InitCall /\ [][NextCall]_vars
SpecBoot == InitBoot /\ [][NextBoot]_vars
SpecStale == InitStale /\ [][NextBoot]_vars
SpecPersist == InitPersist /\ [][NextBoot]_vars
SpecDecide == InitDecide /\ [][NextDecide]_vars
SpecSearch == InitSearch /\ [][NextSearch]_vars
SpecParams == InitSearch /\ [][NextParams]_vars
SpecItems == InitItems /\ [][NextItems]_vars
SpecRequests == InitRequests /\ [][NextRequests]_vars
SpecCache == InitCache /\ [][NextCache]_vars
SpecConv == InitConv /\ [][NextConv]_vars
SpecClosed == InitClosed /\ [][NextConv]_vars
SpecQuestion == InitQuestion /\ [][NextConv]_vars
SpecRefs == InitRefs /\ [][NextConv]_vars

\* -------------------------------------------------------------- properties
Refreshing == {t \in Workers : pc[t] \in {"exec", "write"}}

\* C1: at most one collection refresh (ExecuteCollection called by update)
\* is in progress at any time, over the loop thread and the handler threads
OneRefreshAtATime == Cardinality(Refreshing) <= 1

\* a refresh is in progress while another thread waits for the mutex
RefreshWhileOtherWaits ==
  \E t \in Workers : \E w \in Workers \ {t} :
    pc[t] = "exec" /\ pc[w] = "rc_lock"

\* C2: no handler thread is at a read of the map u.cache (in Lookup or in
\* ForceRefresh) while update is inside its assignment to that map
ReadsNeverOverlapWrite ==
  \A t \in Readers :
    pc[t] \in {"lk_read1", "lk_read2", "fr_read"} => Writers(t) = {}

\* C3: at most one Persist goroutine is executing persistFunc
OnePersistAtATime ==
  Cardinality({p \in Persisters : pc[p] = "p_run"}) <= 1

\* the positions of a call after its return value is determined
Returning == {"ra_load", "ra_second", "ra_last", "done"}

\* C6: ForceRefresh for a collection that has never been requested runs no
\* refresh with newer-than = now - 1s (the only refresh it can run is the one
\* of Lookup, with the zero newer-than, and only when nothing is cached), it
\* runs no ExecuteCollection when a result is cached, and it returns the
\* cache entry as Lookup does
ForceRefreshOfUnrequested ==
  \A t \in Readers :
    (loc[t].op = "ForceRefresh" /\ IsZero(lastRequest[loc[t].id])) =>
      /\ pc[t] \in {"rc_lock", "exec", "write"} =>
           /\ loc[t].newerThan = ZeroTime
           /\ cache[loc[t].id].isNil
      /\ pc[t] \in {"ra_load", "ra_second", "ra_last"} =>
           /\ loc[t].hit => loc[t].execs = 0
           /\ loc[t].execs <= 1
           /\ loc[t].ret = cache[loc[t].id]

\* ForceRefresh for a never requested collection with a cached result is
\* about to return that result, no ExecuteCollection has run
UnrequestedForceRefreshHit ==
  \E t \in Readers :
    /\ loc[t].op = "ForceRefresh"
    /\ IsZero(lastRequest[loc[t].id])
    /\ pc[t] = "ra_last"
    /\ loc[t].hit
    /\ loc[t].execs = 0
    /\ ~loc[t].ret.isNil

\* C7: ForceRefresh for a collection that has been requested runs exactly
\* one ExecuteCollection, with newer-than = call time - 1s and the mutex
\* held, whatever updateCycles, the age of the result and the history of
\* requests are, and returns the cache entry as it is after the run: the
\* new result, or the entry the failed run has left unchanged
ForceRefreshOfRequested ==
  /\ [](\A t \in Readers :
          (loc[t].op = "ForceRefresh" /\ ~IsZero(loc[t].start)) =>
            /\ pc[t] \in {"exec", "write"} =>
                 /\ loc[t].newerThan = loc[t].start - ForceDelta
                 /\ mutex = t
            /\ pc[t] \in {"exec", "write", "fr_read"} \cup Returning =>
                 loc[t].execs = 1
            /\ pc[t] \in Returning =>
                 /\ loc[t].ret = cache[loc[t].id]
                 /\ ~loc[t].r.isNil => loc[t].ret = loc[t].r)
  /\ [](\A t \in Readers :
          (loc[t].op = "ForceRefresh" /\ ~IsZero(lastRequest[loc[t].id])
             /\ pc[t] \in {"rc_lock", "exec", "write", "fr_read"}) =>
            /\ ~IsZero(loc[t].start)
            /\ loc[t].start <= now)
  /\ [][\A t \in Readers :
          (loc[t].op = "ForceRefresh" /\ pc[t] = "exec" /\ pc'[t] = "fr_read")
            => cache' = cache]_vars

\* a forced refresh of a requested collection, two cycles after start, has
\* run and returns its own result
ForcedRefreshReturnsNew ==
  \E t \in Readers :
    /\ loc[t].op = "ForceRefresh"
    /\ ~IsZero(loc[t].start)
    /\ pc[t] = "done"
    /\ updateCycles = 2
    /\ loc[t].execs = 1
    /\ ~loc[t].ret.isNil
    /\ loc[t].ret = loc[t].r

\* C8: Lookup returns the cached result without a refresh when there is one;
\* without one a blocking Lookup runs one refresh and returns its result
\* (nil if it failed) and a non-blocking Lookup returns nil without a
\* refresh; in each case recordAccess stores the clock as last-requested and
\* moves the previous last-requested, if any, to second-last-requested
LookupContract ==
  /\ [](\A t \in Readers :
          (loc[t].op = "Lookup" /\ pc[t] \in Returning) =>
            /\ loc[t].ret = cache[loc[t].id]
            /\ loc[t].hit => (loc[t].execs = 0 /\ ~loc[t].ret.isNil)
            /\ (~loc[t].hit /\ loc[t].blocking) =>
                 (loc[t].execs = 1 /\ loc[t].ret = loc[t].r)
            /\ (~loc[t].hit /\ ~loc[t].blocking) =>
                 (loc[t].execs = 0 /\ loc[t].ret.isNil))
  /\ [](\A t \in Readers :
          (loc[t].op = "Lookup" /\ pc[t] = "rc_lock") => cache[loc[t].id].isNil)
  /\ [](\A t \in Readers :
          (loc[t].op = "Lookup" /\ pc[t] = "done") =>
            /\ ~IsZero(lastRequest[loc[t].id])
            /\ lastRequest[loc[t].id] <= now)
  /\ [][\A t \in Readers :
          (loc[t].op = "Lookup" /\ pc[t] = "ra_last" /\ pc'[t] = "done") =>
            /\ lastRequest'[loc[t].id] = now
            /\ secondLastRequest'[loc[t].id] =
                 IF IsZero(lastRequest[loc[t].id])
                 THEN ZeroTime ELSE lastRequest[loc[t].id]]_vars

\* a blocking Lookup of a collection without a cached result, requested
\* before, has run its refresh and recorded the access
BlockingLookupRefreshed ==
  \E t \in Readers :
    /\ loc[t].op = "Lookup"
    /\ pc[t] = "done"
    /\ loc[t].blocking
    /\ ~loc[t].hit
    /\ loc[t].execs = 1
    /\ ~loc[t].ret.isNil
    /\ lastRequest[loc[t].id] = now
    /\ ~IsZero(secondLastRequest[loc[t].id])

\* C9: a refresh whose ExecuteCollection fails leaves every cache entry and
\* lastPersist as they are and does not set updated; a tick without an
\* update does not count a cycle and does not start Persist
FailedRefreshChangesNothing ==
  /\ [][\A t \in Workers :
          (pc[t] = "exec" /\ pc'[t] \notin {"exec", "write"}) =>
            /\ cache' = cache
            /\ lastPersist' = lastPersist
            /\ t = LoopThread => (updated' = updated /\ loc[t].id \in failed')]_vars
  /\ [][(pc[LoopThread] = "end" /\ pc'[LoopThread] = "idle" /\ ~updated) =>
          /\ updateCycles' = updateCycles
          /\ \A p \in Persisters : pc'[p] = pc[p]]_vars

\* the tick ends, the refresh of c1 has failed and nothing was updated
TickWithFailureOnly ==
  /\ pc[LoopThread] = "end"
  /\ "c1" \in failed
  /\ ~updated
  /\ cache["c1"].isNil

\* the result age and the request times of the decision, in seconds
ResultAge(c) == now - cache[c].Created
RequestAge(c) == now - lastRequested(c)
SecondRequestDiff(c) == lastRequested(c) - secondLastRequested(c)

\* the conditions of an update as they are documented, the halving of
\* need-age in exact arithmetic:
\*   age > (requestAge + secondRequestDiff) / 2 + minRefresh
AdaptiveCondition(c) ==
  /\ ~IsZero(lastRequested(c))
  /\ ~(ResultAge(c) < minRefresh)
  /\ 2 * (ResultAge(c) - minRefresh) > RequestAge(c) + SecondRequestDiff(c)

StaticCondition(c) ==
  \/ updateCycles < 2
  \/ cache[c].isNil
  \/ ResultAge(c) > (IF UsedForStats(c) THEN 3 * maxRefresh ELSE maxRefresh)

\* C4 as stated: without force, shouldUpdate returns a reason if and only
\* if updateCycles < 2, or nothing is cached, or the result is older than
\* maxRefresh (3 x maxRefresh for a stats collection), or the collection
\* has been requested, the result is not younger than minRefresh and is
\* older than need-age
ReasonIffDocumented ==
  (decision.taken /\ ~decision.force) =>
    ((decision.reason # NoReason) <=>
       (StaticCondition(decision.id) \/ AdaptiveCondition(decision.id)))

\* C4: without force, shouldUpdate returns a reason if and only if
\* updateCycles < 2, or nothing is cached, or the result is older than
\* maxRefresh (3 x maxRefresh for a stats collection), or the collection is
\* not used for stats, has been requested, and the result is not younger
\* than minRefresh and is older than need-age
ReasonIffDocumentedOrNotStats ==
  (decision.taken /\ ~decision.force) =>
    ((decision.reason # NoReason) <=>
       (StaticCondition(decision.id)
          \/ (AdaptiveCondition(decision.id) /\ ~UsedForStats(decision.id))))

\* the stats collection has been requested and its result is older than
\* need-age, but not older than 3 x maxRefresh: no reason is returned
StatsAdaptiveNoUpdate ==
  /\ decision.taken
  /\ ~decision.force
  /\ UsedForStats(decision.id)
  /\ AdaptiveCondition(decision.id)
  /\ ~StaticCondition(decision.id)
  /\ decision.reason = NoReason

\* the scenario of the adaptive cadence: requests at 0 and 60, minRefresh
\* 30s, maxRefresh 10m, the result created at 0, warmed up, no force, the
\* collection not used for stats
Scenario(t) ==
  /\ decision.taken
  /\ ~decision.force
  /\ decision.id = "c1"
  /\ now = t
  /\ minRefresh = 30
  /\ maxRefresh = 600
  /\ updateCycles >= 2
  /\ cache["c1"] = Result(0)
  /\ lastRequest["c1"] = 60
  /\ secondLastRequest["c1"] = 0

\* C5 as stated: at 90s need-age is 75s and the decision is to update; at
\* 80s the decision is not to update
CadenceScenario ==
  /\ Scenario(90) => (needAge("c1") = Dur(75) /\ decision.reason # NoReason)
  /\ Scenario(80) => decision.reason = NoReason

\* C5: at 90s need-age is 75s and the decision is to update; at 80s
\* need-age is 70s and the decision is to update as well, the result being
\* 80s old
CadenceScenarioUpdatesAt80 ==
  /\ Scenario(90) => (needAge("c1") = Dur(75) /\ decision.reason = "popularity")
  /\ Scenario(80) => (needAge("c1") = Dur(70) /\ decision.reason = "popularity")

\* the decision of the scenario at 80s has been taken
ScenarioAt80 == Scenario(80)

\* C10: a search whose fetch of the open or of the closed listing has
\* failed returns an error
SearchReturnsFetchError ==
  (search.phase = "done" /\ (search.openFailed \/ search.closedFailed)) =>
    search.err # NoError

\* C11: an entry GetNewerThan(k, t) returns has a Created time that is not
\* before t
ServedEntryIsNewEnough ==
  (mem.op.name = "get" /\ mem.op.ret # NoThing) =>
    mem.things[mem.op.ret] >= mem.op.t

\* GetNewerThan has served an entry whose Created equals the time asked for
ServedAtExactTime ==
  /\ mem.op.name = "get"
  /\ mem.op.ret # NoThing
  /\ mem.things[mem.op.ret] = mem.op.t

\* C12: after Set(k, v) the Created of v is the caller's timestamp, or the
\* time of the Set if that was zero, GetNewerThan(k, t) returns v for every
\* t up to that Created, and a Set of the entry already stored leaves the
\* entry and its Created as they were
SetThenGetRoundTrip ==
  mem.op.name = "set" =>
    /\ mem.things[mem.op.th] =
         (IF IsZero(mem.op.created) THEN mem.op.at ELSE mem.op.created)
    /\ \A t \in CacheTimes :
         t <= mem.things[mem.op.th] => newerThanMem(mem.op.key, t) = mem.op.th
    /\ (mem.op.before[mem.op.key] = mem.op.th /\ ~IsZero(mem.op.created)) =>
         (mem.store[mem.op.key] = mem.op.th
            /\ mem.things[mem.op.th] = mem.op.created)

\* the Set of a Thing stamped by an earlier Set has been repeated at a
\* later time
RepeatedSetLater ==
  /\ mem.op.name = "set"
  /\ mem.op.before[mem.op.key] = mem.op.th
  /\ mem.op.at > mem.op.created
  /\ mem.op.created = 0

\* C13: DeleteOlderThan(k, t) removes the entry under k if and only if its
\* Created is before t, and leaves the other keys alone
DeleteOnlyOlder ==
  mem.op.name = "delete" =>
    /\ \A k \in Keys \ {mem.op.key} : mem.store[k] = mem.op.before[k]
    /\ mem.op.th # NoThing =>
         ((mem.store[mem.op.key] = NoThing) <=> (mem.op.created < mem.op.t))

\* C14: for every Conversation that conversation builds, the accumulated
\* hold time is at most the age of the item (now minus its creation), so
\* the panic of lines 225-227 is never reached, whatever the authors, the
\* roles and the creation times of the comments
HoldTimeWithinAge ==
  conv.phase \in {"done", "panic"} =>
    conv.co.AccumulatedHoldTime <= Since(conv.co.Created)

\* the Conversation conversation has returned
Built == conv.phase = "done"
TagCount(tg) ==
  Cardinality({n \in 1 .. Len(conv.co.Tags) : conv.co.Tags[n] = tg})
AuthorIsMember == isMember(conv.item.user, conv.item.assoc)

\* C15: every Conversation carries at most one of the tags send and recv,
\* and the Conversation of an author who is no member carries exactly one
SendXorRecv ==
  Built =>
    /\ TagCount("send") + TagCount("recv") <= 1
    /\ ~AuthorIsMember => TagCount("send") + TagCount("recv") = 1

\* a Conversation of a non-member tagged send after comments of the author
\* and of a member
SendAfterReplies ==
  /\ Built
  /\ ~AuthorIsMember
  /\ TagCount("send") = 1
  /\ TagCount("recv") = 0
  /\ \E n \in 1 .. Len(conv.cs) : conv.cs[n].user = Author

\* C16, each comment: for an author who is no member, the comment of a
\* member adds to the accumulated hold time the interval from the latest
\* author response to the comment if no member has responded after the
\* author (the conversation awaits the maintainer), and nothing otherwise;
\* no other comment adds anything
HoldStep ==
  (conv.phase = "loop" /\ conv'.phase = "loop" /\ ~AuthorIsMember) =>
    LET c == conv.cs[conv.k]
        lar == conv'.co.LatestAuthorResponse
        added == conv'.co.AccumulatedHoldTime - conv.co.AccumulatedHoldTime
    IN IF /\ c.user # "bot"
          /\ isMember(c.user, c.assoc)
          /\ conv.co.LatestMemberResponse <= lar
       THEN added = c.created - lar
       ELSE added = 0

\* the comments author at 0, member at 1, author at 3, member at 6 on the
\* item of a non-member
HoldScenario ==
  /\ ~AuthorIsMember
  /\ conv.cs = <<Comment(Author, "NONE", 0), Comment("m1", "NONE", 1),
                 Comment(Author, "NONE", 3), Comment("m1", "NONE", 6)>>

\* C16: the hold time accumulates as HoldStep says, and for the comments
\* author at 0h, member at 1h, author at 3h, member at 6h the accumulated
\* hold time is (1 - 0) + (6 - 3) = 4h, the tag is send and no current hold
\* is added
HoldAccumulation ==
  /\ [][HoldStep]_vars
  /\ [](HoldScenario /\ conv.phase \in {"done", "panic"} =>
          /\ Built
          /\ conv.co.AccumulatedHoldTime = 4
          /\ conv.co.CurrentHoldTime = 0
          /\ TagCount("send") = 1
          /\ TagCount("recv") = 0)

\* the scenario of C16 has been built
HoldScenarioBuilt ==
  HoldScenario /\ Built /\ conv.co.AccumulatedHoldTime = 4

\* the comments of no bot created strictly later than 30 seconds after the
\* close of the item; none if the item is not closed
LateComments ==
  IF IsZero(conv.item.closedAt) THEN {}
  ELSE {n \in 1 .. Len(conv.cs) :
          /\ ~isBot(conv.cs[n].user)
          /\ conv.cs[n].created > conv.item.closedAt + closedGrace}

\* C17: closed-comments-total is the number of the comments of no bot
\* created strictly later than closed-at + 30s, zero for an item that is not
\* closed, and closed-commenters-total the number of their distinct authors
\* (so a comment at closed-at + 5s is not counted, one at + 45s is)
ClosedCounts ==
  Built =>
    /\ conv.co.ClosedCommentsTotal = Cardinality(LateComments)
    /\ conv.co.ClosedCommentersTotal =
         Cardinality({conv.cs[n].user : n \in LateComments})

\* an item closed at T with a comment at T + 5s, one at T + 45s and one of a
\* bot at T + 45s: one comment counted
ClosedGraceBuilt ==
  /\ Built
  /\ conv.item.closedAt = 0
  /\ conv.cs = <<Comment("x", "NONE", 5), Comment("bot", "NONE", 45),
                 Comment(Author, "NONE", 45)>>
  /\ conv.co.ClosedCommentsTotal = 1
  /\ conv.co.ClosedCommentersTotal = 1

\* the fences of the body among the first m words of line n
RECURSIVE FencesUpTo(_, _, _)
FencesUpTo(body, n, m) ==
  IF n = 0 THEN 0
  ELSE Cardinality({j \in 1 .. m : body[n][j] = Fence})
       + (IF n = 1 THEN 0 ELSE FencesUpTo(body, n - 1, Len(body[n - 1])))

\* word m of line n stands inside a fenced code block: between a fence that
\* opens a block and the fence that closes it
InCodeBlock(body, n, m) ==
  /\ body[n][m] # Fence
  /\ FencesUpTo(body, n, m) % 2 = 1
  /\ FencesUpTo(body, Len(body), Len(body[Len(body)])) > FencesUpTo(body, n, m)

\* the body has a question mark on a line that is no quote line, outside
\* every fenced code block
VisibleQuestion(body) ==
  \E n \in 1 .. Len(body) : \E m \in 1 .. Len(body[n]) :
    /\ body[n][m] = "why?"
    /\ ~HasQuotePrefix(TrimSpace(body[n]))
    /\ ~InCodeBlock(body, n, m)

\* C18: a comment sets last-question-time only if it has a question mark on
\* a line that is neither a quote line nor inside a fenced code block; a
\* question mark only in quote lines or only inside code blocks leaves it
\* unchanged and cannot cause the tag recv-q
QuestionOutsideCodeOnly ==
  (conv.phase \in {"loop", "done"} /\ conv.k > 1
     /\ ~VisibleQuestion(conv.cs[1].body)) =>
    /\ IsZero(conv.lastQuestion)
    /\ TagCount("recv-q") = 0

\* C19: IssueRefs holds at most one entry per referenced item, by the key
\* project/N, however often, in which form and in how many comments the
\* item is referenced
OneRefPerItem ==
  \A a, b \in 1 .. Len(conv.co.IssueRefs) :
    (/\ conv.co.IssueRefs[a].Project = conv.co.IssueRefs[b].Project
     /\ conv.co.IssueRefs[a].ID = conv.co.IssueRefs[b].ID) => a = b

\* the conversation's own item, and the text the next step parses
OwnItem ==
  [org |-> conv.item.url[4], project |-> conv.item.url[5],
   id |-> conv.item.number]
ParsedText ==
  IF conv.phase = "start" THEN conv.item.body
  ELSE IF conv.phase = "loop" /\ conv.k <= Len(conv.cs)
  THEN conv.cs[conv.k].body
  ELSE <<>>
OnlySelfRefs(text) ==
  \A n \in 1 .. Len(text) : \A m \in 1 .. Len(text[n]) :
    text[n][m] \in {"see", "#7", OwnUrl}

\* C20: IssueRefs never holds the conversation's own item, the mention time
\* of the own item is never set, and a text whose references are all
\* references to the own item, relative or absolute, changes neither
\* IssueRefs nor any mention time
NoSelfRefs ==
  /\ [](\A n \in 1 .. Len(conv.co.IssueRefs) :
          RefTarget(conv.co.IssueRefs[n]) # OwnItem)
  /\ [](IsZero(conv.mtime[OwnItem]))
  /\ [][OnlySelfRefs(ParsedText) =>
          /\ conv'.co.IssueRefs = conv.co.IssueRefs
          /\ conv'.mtime = conv.mtime]_vars

\* a Conversation whose item refers to itself in both forms and to one other
\* item, and whose comment refers to the item itself
SelfRefsDropped ==
  /\ Built
  /\ conv.item.body = RefText(<<"#7", OwnUrl, "#42">>)
  /\ Len(conv.cs) = 1
  /\ conv.cs[1].body = RefText(<<"#7">>)
  /\ Len(conv.co.IssueRefs) = 1
  /\ conv.co.IssueRefs[1].ID = 42

\* some filter of the list sets closed-commenters, sets closed-comments or
\* sets the state to a value other than open
DemandsClosed(fs) ==
  \E n \in 1 .. Len(fs) :
    \/ fs[n].ClosedCommenters # ""
    \/ fs[n].ClosedComments # ""
    \/ fs[n].State \notin {"", "open"}

\* C21: NeedsClosed(filters) is true iff some filter sets closed-commenters,
\* sets closed-comments or sets the state to a value other than open, and a
\* search requests the closed listing only if NeedsClosed of its filters,
\* expanded by openByDefault, is true
ClosedOnlyWhenNeeded ==
  /\ \A fs \in SearchFilterLists : NeedsClosed(fs) = DemandsClosed(fs)
  /\ (\E r \in search.requests : r.state = "closed") =>
       DemandsClosed(search.fs)

\* a search whose only filter sets the state closed has requested both
\* listings
ClosedListingRequested ==
  /\ search.phase = "done"
  /\ search.fs = <<[NoFilter EXCEPT !.State = "closed"]>>
  /\ search.requests = {ListRequest("open", 0), ClosedRequest}

\* C22: the list of items a search filters and turns into Conversations
\* holds no two items with the same URL: of the joined open and closed
\* listings the first occurrence of every URL is kept, in SearchIssues and
\* in SearchPullRequests
NoDuplicateItems ==
  search.phase = "done" =>
    /\ \A a, b \in 1 .. Len(search.filtered) :
         search.filtered[a] = search.filtered[b] => a = b
    /\ search.filtered = Unseen(search.open \o search.closed, {})

\* the timestamps of the listings a search has fetched with success
FetchedTimes ==
  (IF search.openStep = "done" /\ ~search.openFailed
   THEN {search.ots} ELSE {})
  \cup (IF search.needsClosed /\ search.closedStep = "done"
           /\ ~search.closedFailed
        THEN {search.cts} ELSE {})

\* C23: the timestamp a search returns is the minimum of the timestamps of
\* the listings it has fetched with success, under every interleaving of
\* the two fetches; a listing whose fetch failed contributes nothing
OldestInputIsMinimum ==
  (search.phase = "done" /\ FetchedTimes # {}) =>
    /\ search.ts \in FetchedTimes
    /\ \A t \in FetchedTimes : search.ts <= t

\* C24: under every interleaving of the two goroutines of a search, the
\* open listing is requested with state open and no update age, the closed
\* listing, when needed, with state closed and MaxClosedUpdateAge; no
\* request is altered by the writes of the other goroutine
RequestsAsIntended ==
  search.phase = "done" =>
    search.requests =
      {ListRequest("open", 0)}
      \cup (IF search.needsClosed
            THEN {ListRequest("closed", MaxClosedUpdateAge)} ELSE {})

\* the entries of the log before the k-th
Before(k, op, ok) == \E j \in 1 .. k - 1 : search.log[j] = Step(op, ok)

\* C25: for every item of an issue search and of a pull-request search, no
\* comments, timeline or reviews fetch is issued unless the item passed the
\* pre-fetch match, the timeline fetch is issued only after the item passed
\* the post-fetch match, and the Conversation is built between the pre-fetch
\* match and the post-fetch match, which precedes the post-events match
StepsInOrder ==
  search.phase = "items" =>
    \A k \in 1 .. Len(search.log) :
      LET op == search.log[k].op
      IN /\ op \in {"comments", "timeline", "reviews"}
              => Before(k, "preFetchMatch", TRUE)
         /\ op = "timeline" => Before(k, "postFetchMatch", TRUE)
         /\ op = "summary" => Before(k, "preFetchMatch", TRUE)
         /\ op = "postFetchMatch" => Before(k, "summary", TRUE)
         /\ op = "postEventsMatch" => Before(k, "postFetchMatch", TRUE)

\* some filter of fs asks for a tag that needs the timeline, or sets the
\* prioritized key
TimelineFilter(fs) ==
  \E k \in 1 .. Len(fs) :
    TagNeeds(fs[k], "NeedsTimeline") \/ fs[k].Prioritized # ""

\* C28: needTimeline(item, filters, pr, hidden) is true if and only if the
\* item has a milestone, or it is an open pull request, or some filter needs
\* timeline-derived tags or the prioritized key, or the collection is not
\* hidden
NeedTimelineIff ==
  \A k \in 1 .. Len(search.log) :
    search.log[k].op = "needTimeline" =>
      search.log[k].ok =
        (\/ search.i.Milestone
         \/ (search.kind = "prs" /\ search.i.State = "open")
         \/ TimelineFilter(search.fs)
         \/ ~search.hidden)

\* C29 as stated: there is an item and a filter list for which the two
\* variants of needComments return different results
VariantsDiffer ==
  search.phase \in {"items", "done"} =>
    \E i \in ListedItems : \E fs \in ItemFilterLists :
      needComments(i, fs) # needCommentsIItem(i, fs)

\* C29: the two variants of needComments return the same result: for
\* every item and filter list a search goes through, what needComments of
\* part_001 returned is what needComments of part_000 returns
VariantsAgree ==
  \A k \in 1 .. Len(search.log) :
    search.log[k].op = "needComments" =>
      search.log[k].ok = needCommentsIItem(search.i, search.fs)

\* a closed item and filters that ask for no comments: the case in which
\* the two endings are taken, and both return false
ClosedItemNeedsNoComments ==
  /\ search.i.State = "closed"
  /\ \E k \in 1 .. Len(search.log) :
       search.log[k] = Step("needComments", FALSE)

\* C26: the tag recv-q is on a Conversation only if the tag recv is on it
\* too; it is never on a Conversation that carries send, nor on one whose
\* author is a member
RecvQOnlyWithRecv ==
  (Built /\ TagCount("recv-q") > 0) =>
    /\ TagCount("recv") > 0
    /\ TagCount("send") = 0
    /\ ~AuthorIsMember

\* the round of the loop that is about to run is the comment of a member
\* who is no bot
MemberCommentNext ==
  /\ conv.phase = "loop"
  /\ conv.k <= Len(conv.cs)
  /\ isMember(conv.cs[conv.k].user, conv.cs[conv.k].assoc)
  /\ ~isBot(conv.cs[conv.k].user)

\* C27: before any comment is processed, latest-member-response is the
\* creation time of the item if and only if the author is a member and the
\* zero time otherwise; afterwards only the comment of a member who is no
\* bot changes it
LatestMemberResponseStart ==
  /\ [](conv.phase = "loop" /\ conv.k = 1 =>
          conv.co.LatestMemberResponse =
            IF AuthorIsMember THEN conv.item.created ELSE ZeroTime)
  /\ [][conv.phase = "loop" /\ ~MemberCommentNext =>
          conv'.co.LatestMemberResponse = conv.co.LatestMemberResponse]_vars

\* the cached result of c is older than maxRefresh, three times maxRefresh
\* for a collection used for stats
MaxRefreshOf(c) == IF UsedForStats(c) THEN maxRefresh * 3 ELSE maxRefresh
StaleResult(c) ==
  /\ ~cache[c].isNil
  /\ Since(cache[c].Created) > MaxRefreshOf(c)

\* the tick RunOnce is at its end, it has gone through all collections and
\* no refresh has failed
TickSucceeded ==
  /\ pc[LoopThread] = "end"
  /\ idx = Len(sts)
  /\ failed = {}

\* C30: a tick whose refreshes succeed refreshes every collection whose
\* cached result is older than maxRefresh (three times maxRefresh for a
\* stats collection), whether the collection was ever requested or not and
\* whenever it was: RefreshCollection of the tick goes on to update for
\* such a collection, and at the end of the tick every result that was
\* that old when the tick began has been replaced by one created since
StaleRefreshedByTick ==
  /\ [](TickSucceeded =>
          \A c \in Collections :
            \/ cache[c].Created >= loc[LoopThread].start
            \/ loc[LoopThread].start - cache[c].Created <= MaxRefreshOf(c))
  /\ [][(pc[LoopThread] = "rc_lock" /\ StaleResult(loc[LoopThread].id)
           /\ pc'[LoopThread] # "rc_lock")
          => pc'[LoopThread] = "exec"]_vars

\* a tick has refreshed both collections, neither of which was ever
\* requested, two or more cycles after the start and without force: only
\* the age of the results asked for it
NeverRequestedRefreshed ==
  /\ TickSucceeded
  /\ updateCycles >= 2
  /\ ~loc[LoopThread].force
  /\ \A c \in Collections :
       /\ IsZero(lastRequest[c])
       /\ cache[c].Created >= loc[LoopThread].start

\* the loop ends a tick
TickEnds == pc[LoopThread] = "end" /\ pc'[LoopThread] = "idle"
\* the tick that ends starts a Persist goroutine
PersistLaunched == \E p \in Persisters : pc[p] # "p_test" /\ pc'[p] = "p_test"

\* C31: a Persist clears the flag persistStart when it returns, whether
\* persistFunc returned an error or not; a Persist rejected as already
\* persisting changes neither the flag nor lastPersist; and a tick that
\* ends with new data while no Persist is flagged starts Persist whenever
\* lastPersist is further back than every cutoff, after a failed Persist as
\* after any other, and never when it is within maxRefresh
FailedPersistClearsFlag ==
  /\ [][\A p \in Persisters :
          (pc[p] = "p_run" /\ pc'[p] # "p_run") =>
            /\ IsZero(persistStart')
            /\ pc'[p] \in {"idle", "p_failed"}]_vars
  /\ [][\A p \in Persisters :
          (pc[p] = "p_test" /\ pc'[p] # "p_test" /\ ~IsZero(persistStart)) =>
            /\ pc'[p] = "idle"
            /\ persistStart' = persistStart
            /\ lastPersist' = lastPersist]_vars
  /\ [][(TickEnds /\ updated /\ IsZero(persistStart)
           /\ Since(lastPersist) > maxRefresh + (maxRefresh - 1))
          => PersistLaunched]_vars
  /\ [][(TickEnds /\ Since(lastPersist) <= maxRefresh) => ~PersistLaunched]_vars

\* a Persist has ended with an error and stamped lastPersist, the flag is
\* clear, and more than maxRefresh later the other goroutine starts Persist
RetryAfterFailedPersist ==
  \E p, q \in Persisters :
    /\ pc[p] = "p_failed"
    /\ pc[q] = "p_test"
    /\ IsZero(persistStart)
    /\ ~IsZero(lastPersist)
    /\ Since(lastPersist) > maxRefresh
    /\ lastRun = now

\* C32: every call of Lookup or ForceRefresh records exactly one access:
\* when the call has returned, lastRequest of its collection is the time of
\* the call, and secondLastRequest is what lastRequest was before the call;
\* it stays unset if the collection had never been requested, as it had not
\* when ForceRefresh fell back to Lookup
OneAccessPerCall ==
  pc[Handler] = "done" =>
    /\ ~IsZero(lastRequest[loc[Handler].id])
    /\ lastRequest[loc[Handler].id] <= now
    /\ loc[Handler].fallback => IsZero(secondLastRequest[loc[Handler].id])

\* C33: whenever a collection has been requested, secondLastRequested(id)
\* is not later than lastRequested(id), so that the interval between the
\* last two requests is never negative, also when the second-last request
\* falls back to the start time and under concurrent calls of Lookup
RequestIntervalNotNegative ==
  \A c \in Collections :
    ~IsZero(lastRequested(c)) =>
      /\ secondLastRequested(c) <= lastRequested(c)
      /\ Sub(lastRequested(c), secondLastRequested(c)) >= 0

\* updateCycles changes only when a tick ends, and then grows by one if and
\* only if the tick has updated; updated is set by the successful refresh
\* of a collection by the tick and by nothing else
CyclesCountUpdatingTicks ==
  /\ [][updateCycles' # updateCycles => TickEnds]_vars
  /\ [][TickEnds =>
          updateCycles' = IF updated THEN updateCycles + 1 ELSE updateCycles]_vars
  /\ [][(updated' /\ ~updated) =>
          pc[LoopThread] = "write" /\ pc'[LoopThread] # "write"]_vars
  /\ [][(pc[LoopThread] = "write" /\ pc'[LoopThread] # "write") => updated']_vars
  /\ [][(pc[LoopThread] = "rc_lock" /\ updateCycles < 2
           /\ pc'[LoopThread] # "rc_lock") => pc'[LoopThread] = "exec"]_vars

SameRequestsAsArgs ==
  search.variant = "sp" =>
    \A k \in 1 .. Len(search.reqs) :
      search.reqs[k] = ArgsRequest(search.reqs[k].op)
====
